---- MODULE Spec2Model ----
(***************************************************************************)
(* Webhook-driven recording reconciliation and background indexing of the  *)
(* async-recorder desktop client: the local store (database.js), the       *)
(* webhook ingress and the enrichment task (server/index.js), the indexing *)
(* call chain (insights-service.js) and user registration (main.js).       *)
(*                                                                         *)
(* JavaScript runs one synchronous block at a time: every action below is  *)
(* one such block, from an event (HTTP request, IPC call, resolution of an *)
(* awaited external call) to the next suspension point.                    *)
(***************************************************************************)
EXTENDS Integers, Sequences, FiniteSets, TLC

VARIABLES
    recordings,   \* table recordings: row id = index (AUTOINCREMENT, no delete)
    users,        \* table users: row id = index
    runs,         \* every processIndexingBackground call made so far
    http,         \* the webhook exchanges so far, in processing order
    dbOpen,       \* database.js `db` is a database (TRUE) or null (FALSE)
    now,          \* the wall clock, in seconds: datetime('now'), Date.now()
    listings,     \* the results of the get-recordings calls made so far
    appConfig,    \* main.js appConfig: accessToken, userName
    cachedSessionToken,
    tokenExpiresAt,   \* a time of the clock; 0 stands for null (both falsy)
    calls,        \* every IPC handler / getSessionToken call made so far
    uuids,        \* the number of randomUUID() values drawn so far
    disk,         \* the tables in the database file, as saveToFile left them
    diskOk,       \* fs.writeFileSync on the database file succeeds
    connections,  \* VideoDBService._connections: pairs <<apiKey, connection>>
    captureClient,    \* main.js captureClient, and the clients shut down
    tunnelManager,    \* TunnelManager: _process, _publicUrl, _webhookUrl
    children      \* the cloudflared processes spawned so far

\* the environment and the collaborators of the webhook server
envVars == <<diskOk, connections, captureClient, tunnelManager, children>>

\* the state of the main process outside the webhook server's tables
appVars == <<dbOpen, now, listings, appConfig, cachedSessionToken,
             tokenExpiresAt, calls, uuids, envVars>>

vars == <<recordings, users, runs, http, disk, appVars>>

----------------------------------------------------------------------------
(* Values.  Identifiers are atoms; URLs, transcripts and the insights blob  *)
(* are texts: sequences of one-character strings.  SQL NULL / JS null and   *)
(* JS undefined have one representative of each kind.                       *)

Null   == "null"
Undef  == "undefined"
NullT  == <<"null">>
UndefT == <<"undefined">>

TextFields == {"stream_url", "player_url", "insights"}

\* JS truthiness of an optional string
Truthy(v)  == v \notin {Null, Undef, ""}
TruthyT(t) == t \notin {NullT, UndefT, <<>>}

\* `x || null` as createRecording applies it to every column
OrNull(v)  == IF Truthy(v) THEN v ELSE Null
OrNullT(t) == IF TruthyT(t) THEN t ELSE NullT

----------------------------------------------------------------------------
(* Bounds of the model *)

MaxDeliveries == 2
MaxReDeliveries == 3
MaxRewriteDeliveries == 2
MaxCloseDeliveries == 2
MaxListDeliveries == 2
MaxListings == 1
MaxClock == 1
MaxCalls == 3
MaxRegDeliveries == 1
MaxEventDeliveries == 3
MaxStoreRows == 2
MaxStoreUsers == 1
MaxCrashDeliveries == 3
MaxSpawns == 2
MaxMatchDeliveries == 3
MaxLatestCalls == 2
MaxLiveDeliveries == 2

----------------------------------------------------------------------------
(* Persisted store (database.js).  A lookup returns a row id, 0 for         *)
(* "undefined" (no row).                                                    *)

Ids(rs) == 1..Len(rs)

Last(q) == q[Len(q)]

Min(S) == CHOOSE x \in S : \A y \in S : x <= y

\* getOne: the first row of the result set, rows come in rowid order
getOne(S) == IF S = {} THEN 0 ELSE Min(S)

\* binding undefined as a statement parameter throws in sql.js
BindThrows(v) == v = Undef

\* db.exec / db.run on the null that closeDatabase leaves in `db` throw
DbThrows == ~dbOpen

\* the image of the tables that db.export() gives
Image(rs, us) == [recordings |-> rs, users |-> us]

\* saveToFile: the file is rewritten from the database; an error of the
\* write is logged and swallowed, and the file stays as it was
saveToFile(d, rs, us) == IF diskOk THEN Image(rs, us) ELSE d

\* variant: the lookup compares the wrong column
findRecordingBySessionIdWrongColumn(rs, sessionId) ==
    getOne({i \in Ids(rs) : sessionId # Null /\ rs[i].video_id = sessionId})

\* SELECT * FROM recordings WHERE session_id = ?   (NULL = NULL is not true)
findRecordingBySessionId(rs, sessionId) ==
    getOne({i \in Ids(rs) : sessionId # Null /\ rs[i].session_id = sessionId})

\* SELECT * FROM recordings WHERE video_id = ?
findRecordingByVideoId(rs, videoId) ==
    getOne({i \in Ids(rs) : videoId # Null /\ rs[i].video_id = videoId})

\* SELECT * FROM recordings WHERE id = ?
getRecordingById(rs, id) == IF id \in Ids(rs) THEN id ELSE 0

\* INSERT INTO recordings (...): falsy values are stored as NULL, the status
\* defaults to 'pending'; the new row gets the next id
createRecording(rs, data) ==
    Append(rs, [video_id        |-> OrNull(data.video_id),
                stream_url      |-> OrNullT(data.stream_url),
                player_url      |-> OrNullT(data.player_url),
                session_id      |-> OrNull(data.session_id),
                created_at      |-> now,
                insights        |-> OrNullT(data.insights),
                insights_status |-> IF Truthy(data.insights_status)
                                       THEN data.insights_status
                                       ELSE "pending"])

IsUndefined(f, v) == IF f \in TextFields THEN v = UndefT ELSE v = Undef

\* the fields of an update map that updateRecording puts in its SET clause
DefinedFields(data) == {f \in DOMAIN data : ~IsUndefined(f, data[f])}

\* variant: every key of the map is written, undefined as NULL
updateRecordingAllKeys(rs, id, data) ==
    [i \in Ids(rs) |->
        IF i = id
           THEN [f \in DOMAIN rs[i] |->
                    IF f \in DOMAIN data
                       THEN (IF IsUndefined(f, data[f])
                                THEN (IF f \in TextFields THEN NullT ELSE Null)
                                ELSE data[f])
                       ELSE rs[i][f]]
           ELSE rs[i]]

\* UPDATE recordings SET <defined fields> WHERE id = ?
updateRecording(rs, id, data) ==
    [i \in Ids(rs) |->
        IF i = id
           THEN [f \in DOMAIN rs[i] |->
                    IF f \in DefinedFields(data) THEN data[f] ELSE rs[i][f]]
           ELSE rs[i]]

\* variant: the first user is taken
getOldestUser(us) == IF us = <<>> THEN 0 ELSE 1

\* SELECT * FROM users ORDER BY id DESC LIMIT 1
getLatestUser(us) == Len(us)

\* variant: the lookup by credential finds nothing
findUserByApiKeyBlind(us, apiKey) == 0

\* SELECT * FROM users WHERE api_key = ?
findUserByApiKey(us, apiKey) ==
    getOne({i \in 1..Len(us) : us[i].api_key = apiKey})

\* SELECT * FROM users WHERE access_token = ?
findUserByToken(us, accessToken) ==
    getOne({i \in 1..Len(us) : us[i].access_token = accessToken})

\* INSERT INTO users (name, api_key, access_token)
createUser(us, name, apiKey, accessToken) ==
    Append(us, [name |-> name, api_key |-> apiKey, access_token |-> accessToken])

\* the orders ORDER BY created_at DESC allows: the query leaves the order
\* of rows with the same timestamp open
Orderings(rs) ==
    {p \in [Ids(rs) -> Ids(rs)] :
        /\ \A a, b \in Ids(rs) : a # b => p[a] # p[b]
        /\ \A a, b \in Ids(rs) :
              a < b => rs[p[a]].created_at >= rs[p[b]].created_at}

\* LIMIT ?: a negative limit is no limit
Limited(p, limit) ==
    IF limit < 0 \/ limit >= Len(p) THEN p ELSE SubSeq(p, 1, limit)

\* getRecordings: SELECT * FROM recordings ORDER BY created_at DESC LIMIT ?,
\* as the sequence of row ids in one of the allowed orders
getRecordings(rs, limit) == {Limited(p, limit) : p \in Orderings(rs)}

----------------------------------------------------------------------------
(* Text operations used by the enrichment fold-in *)

Slice(t, a, b) == [i \in 1..(b - a + 1) |-> t[a + i - 1]]

UrlEq == <<"u", "r", "l", "=">>

\* t has pat at position i
At(t, pat, i) ==
    /\ i >= 1
    /\ i + Len(pat) - 1 <= Len(t)
    /\ \A j \in 1..Len(pat) : t[i + j - 1] = pat[j]

\* String.prototype.includes
Includes(t, pat) == \E i \in 1..Len(t) : At(t, pat, i)

\* start of the leftmost match of /url=[^&]+/ in t, 0 when there is none
MatchStart(t) ==
    LET S == {i \in 1..Len(t) :
                 /\ At(t, UrlEq, i)
                 /\ i + 4 <= Len(t)
                 /\ t[i + 4] # "&"}
    IN  IF S = {} THEN 0 ELSE Min(S)

\* end of the match starting at i: [^&]+ is greedy
MatchEnd(t, i) ==
    LET stops == {j \in (i + 4)..Len(t) : t[j] = "&"}
    IN  IF stops = {} THEN Len(t) ELSE Min(stops) - 1

\* the replacement string of String.prototype.replace with its $ patterns
\* expanded: $$ is a dollar sign, $& the match, $` the text before the match,
\* $' the text after it; any other $ stands for itself (the pattern has no
\* capture group)
RECURSIVE ExpandReplacement(_, _, _, _)
ExpandReplacement(rep, matched, before, after) ==
    IF rep = <<>> THEN <<>>
    ELSE IF Head(rep) = "$" /\ Len(rep) >= 2 /\ rep[2] \in {"$", "&", "`", "'"}
         THEN (CASE rep[2] = "$" -> <<"$">>
                 [] rep[2] = "&" -> matched
                 [] rep[2] = "`" -> before
                 [] rep[2] = "'" -> after)
              \o ExpandReplacement(Tail(Tail(rep)), matched, before, after)
         ELSE <<Head(rep)>> \o ExpandReplacement(Tail(rep), matched, before, after)

\* playerUrl.replace(/url=[^&]+/, `url=${subtitleUrl}`)
ReplaceUrlParam(playerUrl, subtitleUrl) ==
    LET i == MatchStart(playerUrl)
    IN  IF i = 0 THEN playerUrl
        ELSE LET e       == MatchEnd(playerUrl, i)
                 before  == Slice(playerUrl, 1, i - 1)
                 matched == Slice(playerUrl, i, e)
                 after   == Slice(playerUrl, e + 1, Len(playerUrl))
             IN  before
                 \o ExpandReplacement(UrlEq \o subtitleUrl, matched, before, after)
                 \o after

\* JSON.stringify of a string: quotes and backslashes are escaped
RECURSIVE JsonEscape(_)
JsonEscape(t) ==
    IF t = <<>> THEN <<>>
    ELSE (IF Head(t) \in {"\"", "\\"} THEN <<"\\", Head(t)>> ELSE <<Head(t)>>)
         \o JsonEscape(Tail(t))

\* variant: the transcript is pasted between quotes without escaping
StringifyTranscriptRaw(t) ==
    <<"{", "\"", "transcript", "\"", ":", "\"">> \o t \o <<"\"", "}">>

\* JSON.stringify({ transcript })
StringifyTranscript(t) ==
    <<"{", "\"", "transcript", "\"", ":", "\"">> \o JsonEscape(t) \o <<"\"", "}">>

----------------------------------------------------------------------------
(* Inputs *)

Exported == "capture_session.exported"

SessionIds == {"sess1", "sess2"}
VideoIds   == {"v1", "v2"}

S1 == <<"s", "1">>
P1 == <<"p", "?", "u", "r", "l", "=", "s", "1">>
S3 == <<"s", "3">>
P3 == <<"q">>

PA == [stream_url |-> S1, player_url |-> P1]
PB == [stream_url |-> S3, player_url |-> P3]
NoPayload == [stream_url |-> UndefT, player_url |-> UndefT]

Transcripts  == {<<>>, <<"h", "\"">>}
SubtitleUrls == {<<>>, <<"s", "2">>}

Request(e, s, v, p) ==
    [event |-> e, session |-> s, video |-> v,
     stream_url |-> p.stream_url, player_url |-> p.player_url]

\* bodies of POST /api/webhook: the event, capture_session_id and
\* data.exported_video_id are optional
ExportedRequests ==
    { Request(Exported, s, "v1", PA) : s \in SessionIds }
    \cup { Request(Exported, s, "v2", PB) : s \in SessionIds }
    \cup { Request(Exported, "sess1", "v2", NoPayload) }
    \cup { Request(Exported, s, "v1", NoPayload) : s \in {Null, Undef} }
    \cup { Request(Exported, s, Undef, NoPayload) : s \in {"sess1", Undef} }

OtherRequests ==
    { Request(e, "sess1", Undef, NoPayload) : e \in {"capture_session.started", "ping", Undef} }

Requests == ExportedRequests \cup OtherRequests

\* deliveries that re-finalize sessions: both videos under both sessions
ReDeliveries ==
    { Request(Exported, s, "v1", PA) : s \in SessionIds }
    \cup { Request(Exported, s, "v2", PB) : s \in SessionIds }

----------------------------------------------------------------------------
(* Background indexing task (processIndexingBackground, indexVideo) *)

NoResult == [ok |-> FALSE, transcript |-> UndefT, subtitleUrl |-> UndefT]

\* variant: the run leaves the status alone until indexVideo has returned
BeginRunNoStatusWrite(rs, rns, recordingId, videoId, apiKey) ==
    [rs  |-> rs,
     rns |-> Append(rns, [recordingId |-> recordingId,
                          videoId     |-> videoId,
                          apiKey      |-> apiKey,
                          pc          |-> "getCollection",
                          transcript  |-> UndefT,
                          subtitleUrl |-> UndefT,
                          writes      |-> <<"processing">>,
                          rejected    |-> FALSE])]

\* variant: the caller gets control back only after getCollection returned
BeginRunAwaitsCollection(rs, rns, recordingId, videoId, apiKey) ==
    [rs  |-> updateRecording(rs, recordingId, [insights_status |-> "processing"]),
     rns |-> Append(rns, [recordingId |-> recordingId,
                          videoId     |-> videoId,
                          apiKey      |-> apiKey,
                          pc          |-> "getVideo",
                          transcript  |-> UndefT,
                          subtitleUrl |-> UndefT,
                          writes      |-> <<"processing">>,
                          rejected    |-> FALSE])]

\* the synchronous head of processIndexingBackground: the status write, then
\* indexVideo up to its first await
BeginRun(rs, rns, recordingId, videoId, apiKey) ==
    [rs  |-> updateRecording(rs, recordingId, [insights_status |-> "processing"]),
     rns |-> Append(rns, [recordingId |-> recordingId,
                          videoId     |-> videoId,
                          apiKey      |-> apiKey,
                          pc          |-> "getCollection",
                          transcript  |-> UndefT,
                          subtitleUrl |-> UndefT,
                          writes      |-> <<"processing">>,
                          rejected    |-> FALSE])]

\* variant: a stored player_url without 'url=' is kept
NewPlayerUrlKeepsStored(rs, recordingId, subtitleUrl) ==
    LET recording == getRecordingById(rs, recordingId)
    IN  IF recording # 0 /\ TruthyT(rs[recording].player_url)
           THEN IF Includes(rs[recording].player_url, UrlEq)
                   THEN ReplaceUrlParam(rs[recording].player_url, subtitleUrl)
                   ELSE rs[recording].player_url
           ELSE subtitleUrl

\* the player_url an obtained subtitle URL leads to
NewPlayerUrl(rs, recordingId, subtitleUrl) ==
    LET recording == getRecordingById(rs, recordingId)
    IN  IF /\ recording # 0
           /\ TruthyT(rs[recording].player_url)
           /\ Includes(rs[recording].player_url, UrlEq)
           THEN ReplaceUrlParam(rs[recording].player_url, subtitleUrl)
           ELSE subtitleUrl

\* variant: the insights are rewritten from every result
ResultUpdatesAlwaysWritesInsights(rs, recordingId, result) ==
    [insights_status |-> "ready",
     insights |-> StringifyTranscript(result.transcript)]
    @@ (IF TruthyT(result.subtitleUrl)
           THEN [stream_url |-> result.subtitleUrl,
                 player_url |-> NewPlayerUrl(rs, recordingId, result.subtitleUrl)]
           ELSE <<>>)

\* the update map built from a result of indexVideo
ResultUpdates(rs, recordingId, result) ==
    [insights_status |-> "ready"]
    @@ (IF TruthyT(result.transcript)
           THEN [insights |-> StringifyTranscript(result.transcript)]
           ELSE <<>>)
    @@ (IF TruthyT(result.subtitleUrl)
           THEN [stream_url |-> result.subtitleUrl,
                 player_url |-> NewPlayerUrl(rs, recordingId, result.subtitleUrl)]
           ELSE <<>>)

\* variant: a failed run puts the row back to 'pending'
FoldUpdatesResetsToPending(rs, recordingId, result) ==
    IF result.ok THEN ResultUpdates(rs, recordingId, result)
                 ELSE [insights_status |-> "pending"]

\* processIndexingBackground after `await indexVideo(...)`
FoldUpdates(rs, recordingId, result) ==
    IF result.ok THEN ResultUpdates(rs, recordingId, result)
                 ELSE [insights_status |-> "failed"]

\* variant: the catch block writes 'failed' outside any try
CatchBlockUnguarded(rs, recordingId) ==
    IF DbThrows
       THEN [rs |-> rs, wrote |-> <<>>, rejected |-> TRUE]
       ELSE [rs |-> updateRecording(rs, recordingId, [insights_status |-> "failed"]),
             wrote |-> <<"failed">>, rejected |-> FALSE]

\* the catch block of processIndexingBackground: the 'failed' write sits in
\* a try of its own whose catch is empty
CatchBlock(rs, recordingId) ==
    IF DbThrows
       THEN [rs |-> rs, wrote |-> <<>>, rejected |-> FALSE]
       ELSE [rs |-> updateRecording(rs, recordingId, [insights_status |-> "failed"]),
             wrote |-> <<"failed">>, rejected |-> FALSE]

\* the try block after `await indexVideo`: with the database closed its
\* first store call (getRecordingById or updateRecording) throws
AfterIndexVideo(rs, recordingId, result) ==
    IF DbThrows
       THEN CatchBlock(rs, recordingId)
       ELSE LET updates == FoldUpdates(rs, recordingId, result)
            IN  [rs |-> updateRecording(rs, recordingId, updates),
                 wrote |-> <<updates.insights_status>>, rejected |-> FALSE]

\* indexVideo returns `result` to run r, which folds it into its row and ends
Settle(r, result) ==
    LET end == AfterIndexVideo(recordings, runs[r].recordingId, result)
    IN  /\ recordings' = end.rs
        /\ disk' = IF DbThrows THEN disk ELSE saveToFile(disk, end.rs, users)
        /\ runs' = [runs EXCEPT ![r].pc = "done",
                                ![r].transcript = result.transcript,
                                ![r].subtitleUrl = result.subtitleUrl,
                                ![r].writes = @ \o end.wrote,
                                ![r].rejected = end.rejected]

Advance(r, pc) == /\ runs' = [runs EXCEPT ![r].pc = pc]
                  /\ UNCHANGED <<recordings, disk>>

RunFrame == UNCHANGED <<users, http, appVars>>

\* await conn.getCollection()
GetCollectionReturn(r, outcome) ==
    /\ runs[r].pc = "getCollection"
    /\ IF outcome = "ok" THEN Advance(r, "getVideo") ELSE Settle(r, NoResult)
    /\ RunFrame

\* await coll.getVideo(videoId): a video, nothing, or an error
GetVideoReturn(r, outcome) ==
    /\ runs[r].pc = "getVideo"
    /\ IF outcome = "ok" THEN Advance(r, "indexSpokenWords") ELSE Settle(r, NoResult)
    /\ RunFrame

\* await video.indexSpokenWords()
IndexSpokenWordsReturn(r, outcome) ==
    /\ runs[r].pc = "indexSpokenWords"
    /\ IF outcome = "ok" THEN Advance(r, "getTranscriptText") ELSE Settle(r, NoResult)
    /\ RunFrame

\* await video.getTranscriptText()
GetTranscriptTextReturn(r, outcome, text) ==
    /\ runs[r].pc = "getTranscriptText"
    /\ IF outcome = "ok"
          THEN /\ runs' = [runs EXCEPT ![r].pc = "addSubtitle",
                                       ![r].transcript = text]
               /\ UNCHANGED <<recordings, disk>>
          ELSE Settle(r, NoResult)
    /\ RunFrame

\* await video.addSubtitle(SUBTITLE_STYLE)
AddSubtitleReturn(r, outcome, url) ==
    /\ runs[r].pc = "addSubtitle"
    /\ IF outcome = "ok"
          THEN Settle(r, [ok |-> TRUE, transcript |-> runs[r].transcript,
                          subtitleUrl |-> url])
          ELSE Settle(r, NoResult)
    /\ RunFrame

----------------------------------------------------------------------------
(* Webhook ingress (POST /api/webhook) *)

NewRecording(req) ==
    [video_id        |-> req.video,
     stream_url      |-> req.stream_url,
     player_url      |-> req.player_url,
     session_id      |-> req.session,
     insights        |-> UndefT,
     insights_status |-> "pending"]

\* variant: no duplicate check by video id before the insert
CorrelateNoDuplicateCheck(rs, req) ==
    LET recording == findRecordingBySessionId(rs, req.session)
    IN  IF recording # 0
           THEN [rs  |-> updateRecording(rs, recording,
                            [video_id        |-> req.video,
                             stream_url      |-> req.stream_url,
                             player_url      |-> req.player_url,
                             insights_status |-> "pending"]),
                 log |-> "updated", row |-> recording]
        ELSE [rs  |-> createRecording(rs, NewRecording(req)),
              log |-> "created", row |-> Len(rs) + 1]

\* variant: no lookup by session id, every new video id is inserted
CorrelateInsertOnly(rs, req) ==
    IF findRecordingByVideoId(rs, req.video) # 0
       THEN [rs |-> rs, log |-> "exists", row |-> 0]
       ELSE [rs  |-> createRecording(rs, NewRecording(req)),
             log |-> "created", row |-> Len(rs) + 1]

\* variant: the duplicate check by video id comes first
CorrelateVideoFirst(rs, req) ==
    LET recording == findRecordingBySessionId(rs, req.session)
    IN  IF findRecordingByVideoId(rs, req.video) # 0
           THEN [rs |-> rs, log |-> "exists", row |-> 0]
        ELSE IF recording # 0
           THEN [rs  |-> updateRecording(rs, recording,
                            [video_id        |-> req.video,
                             stream_url      |-> req.stream_url,
                             player_url      |-> req.player_url,
                             insights_status |-> "pending"]),
                 log |-> "updated", row |-> recording]
        ELSE [rs  |-> createRecording(rs, NewRecording(req)),
              log |-> "created", row |-> Len(rs) + 1]

\* lookup by session id, then update in place, skip a duplicate, or insert;
\* row is the id of the row written (0: none)
Correlate(rs, req) ==
    LET recording == findRecordingBySessionId(rs, req.session)
    IN  IF recording # 0
           THEN [rs  |-> updateRecording(rs, recording,
                            [video_id        |-> req.video,
                             stream_url      |-> req.stream_url,
                             player_url      |-> req.player_url,
                             insights_status |-> "pending"]),
                 log |-> "updated", row |-> recording]
        ELSE IF findRecordingByVideoId(rs, req.video) # 0
           THEN [rs |-> rs, log |-> "exists", row |-> 0]
        ELSE [rs  |-> createRecording(rs, NewRecording(req)),
              log |-> "created", row |-> Len(rs) + 1]

\* the row the enrichment is scheduled for: re-fetch by video id
Refetch(rs, videoId) == findRecordingByVideoId(rs, videoId)

\* re-fetch, pick the latest user's key, start the background task
Schedule(rs, us, rns, videoId) ==
    LET rec        == Refetch(rs, videoId)
        latestUser == getLatestUser(us)
    IN  IF latestUser # 0 /\ Truthy(us[latestUser].api_key) /\ rec # 0
           THEN BeginRun(rs, rns, rec, videoId, us[latestUser].api_key)
           ELSE [rs |-> rs, rns |-> rns]

\* written is the insights_status the correlator stored in that row
Outcome(rs, rns, status, log, row, written) ==
    [rs |-> rs, rns |-> rns, status |-> status, log |-> log, row |-> row,
     written |-> written]

\* variant: the handler does not test the video id
HandleExportedNoVideoGuard(rs, us, rns, req) ==
    IF BindThrows(req.session)
       THEN Outcome(rs, rns, 500, "error", 0, Null)
    ELSE LET c == Correlate(rs, req)
         IN  IF c.log = "exists"
                THEN Outcome(rs, rns, 200, "exists", 0, Null)
                ELSE LET s == Schedule(c.rs, us, rns, req.video)
                     IN  Outcome(s.rs, s.rns, 200, c.log, c.row,
                                 c.rs[c.row].insights_status)

\* variant: a duplicate video id is refused
HandleExportedRefusesDuplicate(rs, us, rns, req) ==
    IF ~Truthy(req.video)
       THEN Outcome(rs, rns, 200, "no_video", 0, Null)
    ELSE IF DbThrows \/ BindThrows(req.session)
       THEN Outcome(rs, rns, 500, "error", 0, Null)
    ELSE LET c == Correlate(rs, req)
         IN  IF c.log = "exists"
                THEN Outcome(rs, rns, 500, "exists", 0, Null)
                ELSE LET s == Schedule(c.rs, us, rns, req.video)
                     IN  Outcome(s.rs, s.rns, 200, c.log, c.row,
                                 c.rs[c.row].insights_status)

\* the handler's outcome for a 'capture_session.exported' body
HandleExported(rs, us, rns, req) ==
    IF ~Truthy(req.video)
       THEN Outcome(rs, rns, 200, "no_video", 0, Null)
    ELSE IF DbThrows \/ BindThrows(req.session)
       THEN Outcome(rs, rns, 500, "error", 0, Null)
    ELSE LET c == Correlate(rs, req)
         IN  IF c.log = "exists"
                THEN Outcome(rs, rns, 200, "exists", 0, Null)
                ELSE LET s == Schedule(c.rs, us, rns, req.video)
                     IN  Outcome(s.rs, s.rns, 200, c.log, c.row,
                                 c.rs[c.row].insights_status)

\* variant: every named event is handled as an export
HandleEveryEventAsExport(rs, us, rns, req) ==
    IF ~Truthy(req.event)
       THEN Outcome(rs, rns, 200, "no_event", 0, Null)
    ELSE HandleExported(rs, us, rns, req)

\* the handler's outcome for any parsed body
Handle(rs, us, rns, req) ==
    IF ~Truthy(req.event)
       THEN Outcome(rs, rns, 200, "no_event", 0, Null)
    ELSE IF req.event = Exported
       THEN HandleExported(rs, us, rns, req)
    ELSE Outcome(rs, rns, 200, "other", 0, Null)

\* one exchange: the request, the response status (200 carries
\* {status: 'ok', received: true}), the handler's log line, the row the
\* correlator wrote with the status it stored, and the run it started (0: none)
Webhook(req) ==
    LET out == Handle(recordings, users, runs, req)
    IN  /\ recordings' = out.rs
        /\ runs' = out.rns
        /\ disk' = IF out.row # 0 THEN saveToFile(disk, out.rs, users) ELSE disk
        /\ http' = Append(http, [req |-> req, status |-> out.status,
                                  log |-> out.log, row |-> out.row,
                                  written |-> out.written,
                                  run |-> IF Len(out.rns) > Len(runs)
                                             THEN Len(out.rns) ELSE 0])
        /\ UNCHANGED <<users, appVars>>

----------------------------------------------------------------------------
(* Registration and the session token (main.js, VideoDBService) *)

\* the values randomUUID() returns, in the order drawn
Uuids == <<"t1", "t2", "t3", "t4", "t5", "t6">>
randomUUID(n) == Uuids[n + 1]

\* credentials the external service accepts, and one it refuses
ValidKeys == {"k1", "k2"}
ApiKeys   == ValidKeys \cup {"bad"}

\* how `await videodbService.verifyApiKey(apiKey)` can end: true, false on
\* an AuthenticationError, or a rethrown transport error
VerifyOutcomes(apiKey) ==
    (IF apiKey \in ValidKeys THEN {"true"} ELSE {"false"}) \cup {"throw"}

\* the client token the service issues for a credential
SessionTokenFor(apiKey) == IF apiKey = "k1" THEN "st_k1" ELSE "st_k2"

\* the cached token's lifetime (expiresIn less the 5 minutes buffer), in
\* seconds of the model's clock
TokenLife == 2

\* the connection objects are numbered as connect() makes them
NextConnection(cs) ==
    IF cs = {} THEN 1
    ELSE 1 + (CHOOSE n \in {c[2] : c \in cs} : \A c \in cs : c[2] <= n)

\* this._connections.set(apiKey, conn) with a connection just made
SetConnection(cs, apiKey) ==
    {c \in cs : c[1] # apiKey} \cup {<<apiKey, NextConnection(cs)>>}

\* _getConnection: the cached connection of the key, or a new one, cached
GetConnection(cs, apiKey) ==
    IF \E c \in cs : c[1] = apiKey THEN cs ELSE SetConnection(cs, apiKey)

NoResponse == [success |-> Null, userName |-> Null, error |-> Null]

\* the calls that have returned (or rejected)
Returned(cs) == {c \in 1..Len(cs) : cs[c].pc \in {"done", "rejected"}}

\* order: the call's rank among the calls in order of return, 0 while it
\* is suspended
NewCall(kind, name, apiKey, pc, token) ==
    [kind |-> kind, name |-> name, apiKey |-> apiKey, pc |-> pc,
     valid |-> Null, result |-> NoResponse, token |-> token,
     order |-> IF pc \in {"done", "rejected"}
                  THEN Cardinality(Returned(calls)) + 1 ELSE 0]

\* saveUserConfig: appConfig = {...appConfig, ...newConfig}
saveUserConfig(cfg, accessToken, userName) ==
    [cfg EXCEPT !.accessToken = accessToken, !.userName = userName]

\* the outcome of the register handler once verifyApiKey has returned or
\* thrown: the users table, appConfig, the count of UUIDs drawn, whether the
\* session token cache is cleared, and the object returned to the caller
Registered(us, cfg, n, clear, result) ==
    [us |-> us, cfg |-> cfg, n |-> n, clear |-> clear, result |-> result]

\* variant: an invalid credential signs the user out
RegisterAfterVerifyResets(us, cfg, n, name, apiKey, outcome) ==
    IF outcome = "throw" \/ (outcome = "true" /\ DbThrows)
       THEN Registered(us, cfg, n, FALSE,
                       [success |-> FALSE, userName |-> Null, error |-> "error.message"])
    ELSE IF outcome = "false"
       THEN Registered(us, saveUserConfig(cfg, Null, Null), n, TRUE,
                       [success |-> FALSE, userName |-> Null, error |-> "Invalid API key"])
    ELSE LET existingUser == findUserByApiKey(us, apiKey)
             userName == IF existingUser # 0 THEN us[existingUser].name
                         ELSE IF Truthy(name) THEN name ELSE "Guest"
             accessToken == IF existingUser # 0 THEN us[existingUser].access_token
                            ELSE randomUUID(n)
         IN  Registered(IF existingUser # 0 THEN us
                           ELSE createUser(us, userName, apiKey, accessToken),
                        saveUserConfig(cfg, accessToken, userName),
                        IF existingUser # 0 THEN n ELSE n + 1,
                        TRUE,
                        [success |-> TRUE, userName |-> userName, error |-> Null])

\* variant: the result of the verification is not looked at
RegisterAfterVerifyUnchecked(us, cfg, n, name, apiKey, outcome) ==
    IF outcome = "throw" \/ DbThrows
       THEN Registered(us, cfg, n, FALSE,
                       [success |-> FALSE, userName |-> Null, error |-> "error.message"])
    ELSE LET existingUser == findUserByApiKey(us, apiKey)
             userName == IF existingUser # 0 THEN us[existingUser].name
                         ELSE IF Truthy(name) THEN name ELSE "Guest"
             accessToken == IF existingUser # 0 THEN us[existingUser].access_token
                            ELSE randomUUID(n)
         IN  Registered(IF existingUser # 0 THEN us
                           ELSE createUser(us, userName, apiKey, accessToken),
                        saveUserConfig(cfg, accessToken, userName),
                        IF existingUser # 0 THEN n ELSE n + 1,
                        TRUE,
                        [success |-> TRUE, userName |-> userName, error |-> Null])

RegisterAfterVerify(us, cfg, n, name, apiKey, outcome) ==
    IF outcome = "throw" \/ (outcome = "true" /\ DbThrows)
       THEN Registered(us, cfg, n, FALSE,
                       [success |-> FALSE, userName |-> Null, error |-> "error.message"])
    ELSE IF outcome = "false"
       THEN Registered(us, cfg, n, FALSE,
                       [success |-> FALSE, userName |-> Null, error |-> "Invalid API key"])
    ELSE LET existingUser == findUserByApiKey(us, apiKey)
             userName == IF existingUser # 0 THEN us[existingUser].name
                         ELSE IF Truthy(name) THEN name ELSE "Guest"
             accessToken == IF existingUser # 0 THEN us[existingUser].access_token
                            ELSE randomUUID(n)
         IN  Registered(IF existingUser # 0 THEN us
                           ELSE createUser(us, userName, apiKey, accessToken),
                        saveUserConfig(cfg, accessToken, userName),
                        IF existingUser # 0 THEN n ELSE n + 1,
                        TRUE,
                        [success |-> TRUE, userName |-> userName, error |-> Null])

\* ipcMain.handle('register'), up to `await videodbService.verifyApiKey`
RegisterCall(name, apiKey) ==
    /\ Len(calls) < MaxCalls
    /\ calls' = Append(calls, NewCall("register", name, apiKey, "verifyApiKey", Null))
    /\ UNCHANGED <<recordings, users, runs, http, disk, dbOpen, now, listings,
                   appConfig, cachedSessionToken, tokenExpiresAt, uuids, envVars>>

\* verifyApiKey returns to register call c, which runs to its end
VerifyApiKeyReturn(c, outcome) ==
    /\ calls[c].kind = "register"
    /\ calls[c].pc = "verifyApiKey"
    /\ outcome \in VerifyOutcomes(calls[c].apiKey)
    /\ connections' = IF outcome = "true"
                         THEN SetConnection(connections, calls[c].apiKey)
                         ELSE connections
    /\ LET out == RegisterAfterVerify(users, appConfig, uuids, calls[c].name,
                                      calls[c].apiKey, outcome)
       IN  /\ users' = out.us
           /\ disk' = IF out.us # users
                         THEN saveToFile(disk, recordings, out.us) ELSE disk
           /\ appConfig' = out.cfg
           /\ uuids' = out.n
           /\ cachedSessionToken' = IF out.clear THEN Null ELSE cachedSessionToken
           /\ tokenExpiresAt' = IF out.clear THEN 0 ELSE tokenExpiresAt
           /\ calls' = [calls EXCEPT ![c].pc = "done",
                                     ![c].valid = outcome,
                                     ![c].result = out.result,
                                     ![c].order = Cardinality(Returned(calls)) + 1]
    /\ UNCHANGED <<recordings, runs, http, dbOpen, now, listings, diskOk,
                   captureClient, tunnelManager, children>>

\* autoRegisterFromSetup, which initializeApp awaits once per launch, up to
\* `await videodbService.verifyApiKey`; without an apiKey in
\* auth_config.json it returns at once
AutoRegisterCall(name, apiKey) ==
    /\ Len(calls) < MaxCalls
    /\ \A c \in 1..Len(calls) :
          calls[c].kind = "auto-register" => calls[c].pc = "abandoned"
    /\ calls' = Append(calls,
          NewCall("auto-register", name, apiKey,
                  IF Truthy(apiKey) THEN "verifyApiKey" ELSE "done", Null))
    /\ UNCHANGED <<recordings, users, runs, http, disk, dbOpen, now, listings,
                   appConfig, cachedSessionToken, tokenExpiresAt, uuids, envVars>>

\* verifyApiKey returns to auto-register call c, which runs to its end: the
\* user is found or created as in the register handler; an invalid key
\* clears the saved access token and user name; the session token cache is
\* left alone and nothing is returned
AutoVerifyApiKeyReturn(c, outcome) ==
    /\ calls[c].kind = "auto-register"
    /\ calls[c].pc = "verifyApiKey"
    /\ outcome \in VerifyOutcomes(calls[c].apiKey)
    /\ connections' = IF outcome = "true"
                         THEN SetConnection(connections, calls[c].apiKey)
                         ELSE connections
    /\ LET out == RegisterAfterVerify(users, appConfig, uuids, calls[c].name,
                                      calls[c].apiKey, outcome)
       IN  /\ users' = out.us
           /\ disk' = IF out.us # users
                         THEN saveToFile(disk, recordings, out.us) ELSE disk
           /\ appConfig' = IF outcome = "false"
                              THEN saveUserConfig(appConfig, Null, Null)
                              ELSE out.cfg
           /\ uuids' = out.n
           /\ calls' = [calls EXCEPT ![c].pc = "done",
                                     ![c].valid = outcome,
                                     ![c].order = Cardinality(Returned(calls)) + 1]
    /\ UNCHANGED <<recordings, runs, http, dbOpen, now, listings, diskOk,
                   cachedSessionToken, tokenExpiresAt,
                   captureClient, tunnelManager, children>>

\* getCurrentUserApiKey
getCurrentUserApiKey(us, cfg) ==
    IF ~Truthy(cfg.accessToken) THEN Null
    ELSE IF findUserByToken(us, cfg.accessToken) = 0 THEN Null
    ELSE us[findUserByToken(us, cfg.accessToken)].api_key

\* getSessionToken, up to `await videodbService.generateSessionToken`: the
\* cached token while it is valid, null without a credential; the lookup
\* of the credential is outside the try, so a throw of the store rejects
GetSessionTokenCall ==
    /\ Len(calls) < MaxCalls
    /\ calls' = Append(calls,
          IF /\ Truthy(cachedSessionToken)
             /\ tokenExpiresAt # 0
             /\ now < tokenExpiresAt
             THEN NewCall("getSessionToken", Null, Null, "done", cachedSessionToken)
          ELSE IF Truthy(appConfig.accessToken) /\ DbThrows
             THEN NewCall("getSessionToken", Null, Null, "rejected", Null)
          ELSE IF getCurrentUserApiKey(users, appConfig) = Null
             THEN NewCall("getSessionToken", Null, Null, "done", Null)
          ELSE NewCall("getSessionToken", Null,
                       getCurrentUserApiKey(users, appConfig),
                       "generateClientToken", Null))
    /\ connections' = IF calls'[Len(calls')].pc = "generateClientToken"
                         THEN GetConnection(connections, calls'[Len(calls')].apiKey)
                         ELSE connections
    /\ UNCHANGED <<recordings, users, runs, http, disk, dbOpen, now, listings,
                   appConfig, cachedSessionToken, tokenExpiresAt, uuids, diskOk,
                   captureClient, tunnelManager, children>>

\* generateSessionToken returns to getSessionToken call c
GenerateClientTokenReturn(c, outcome) ==
    /\ calls[c].kind = "getSessionToken"
    /\ calls[c].pc = "generateClientToken"
    /\ IF outcome = "ok"
          THEN /\ cachedSessionToken' = SessionTokenFor(calls[c].apiKey)
               /\ tokenExpiresAt' = now + TokenLife
               /\ calls' = [calls EXCEPT ![c].pc = "done",
                                         ![c].token = SessionTokenFor(calls[c].apiKey),
                                         ![c].order = Cardinality(Returned(calls)) + 1]
          ELSE /\ calls' = [calls EXCEPT ![c].pc = "done",
                                         ![c].order = Cardinality(Returned(calls)) + 1]
               /\ UNCHANGED <<cachedSessionToken, tokenExpiresAt>>
    /\ UNCHANGED <<recordings, users, runs, http, disk, dbOpen, now, listings,
                   appConfig, uuids, envVars>>

\* no capture client: ref is the start-recording call whose client
\* captureClient references (0 for null), down the clients whose shutdown()
\* has been called
NoClient == [ref |-> 0, down |-> {}]

\* captureClient.shutdown() is called on the referenced client, if any
ShutdownOf(cc) == [cc EXCEPT !.down = IF cc.ref = 0 THEN @ ELSE @ \cup {cc.ref}]

\* appConfig without a logged-in user
NoConfig == [accessToken |-> Null, userName |-> Null]

\* a handler call returns { success: false, error }

Fails(call) == [call EXCEPT !.pc = "done", !.result = [success |-> FALSE, userName |-> Null,
                                       error |-> "error"],
                            !.order = Cardinality(Returned(calls)) + 1]

\* ipcMain.handle('recorder-start-recording'), up to `await
\* videodbService.createCaptureSession`, which takes the connection of the
\* user's key from the cache, or caches a new one, before it awaits
StartRecordingCall ==
    /\ Len(calls) < MaxCalls
    /\ LET user == IF Truthy(appConfig.accessToken) /\ ~DbThrows
                      THEN findUserByToken(users, appConfig.accessToken) ELSE 0
       IN  IF user = 0
              THEN /\ calls' = Append(calls,
                         Fails(NewCall("start-recording", Null, Null, "done", Null)))
                   /\ UNCHANGED connections
              ELSE /\ calls' = Append(calls,
                         NewCall("start-recording", Null, users[user].api_key,
                                 "createCaptureSession", Null))
                   /\ connections' = GetConnection(connections, users[user].api_key)
    /\ UNCHANGED <<recordings, users, runs, http, disk, dbOpen, now, listings,
                   appConfig, uuids, diskOk, tunnelManager, children,
                   cachedSessionToken, tokenExpiresAt, captureClient>>

\* createCaptureSession returns to start-recording call c, which goes on to
\* getSessionToken and, with a cached token, to `new CaptureClient` and
\* `await captureClient.listChannels()`
CreateCaptureSessionReturn(c, outcome) ==
    /\ calls[c].kind = "start-recording"
    /\ calls[c].pc = "createCaptureSession"
    /\ IF outcome = "throw"
          THEN /\ calls' = [calls EXCEPT ![c] = Fails(@)]
               /\ UNCHANGED <<connections, captureClient>>
       ELSE IF Truthy(cachedSessionToken) /\ tokenExpiresAt # 0 /\ now < tokenExpiresAt
          THEN /\ calls' = [calls EXCEPT ![c].pc = "listChannels",
                                         ![c].token = cachedSessionToken]
               /\ captureClient' = [captureClient EXCEPT !.ref = c]
               /\ UNCHANGED connections
       ELSE IF (Truthy(appConfig.accessToken) /\ DbThrows)
               \/ getCurrentUserApiKey(users, appConfig) = Null
          THEN /\ calls' = [calls EXCEPT ![c] = Fails(@)]
               /\ UNCHANGED <<connections, captureClient>>
       ELSE /\ calls' = [calls EXCEPT ![c].pc = "generateClientToken",
                                      ![c].apiKey = getCurrentUserApiKey(users, appConfig)]
            /\ connections' = GetConnection(connections,
                                            getCurrentUserApiKey(users, appConfig))
            /\ UNCHANGED captureClient
    /\ UNCHANGED <<recordings, users, runs, http, disk, dbOpen, now, listings,
                   appConfig, uuids, diskOk, tunnelManager, children,
                   cachedSessionToken, tokenExpiresAt>>

\* generateSessionToken returns to start-recording call c
StartRecordingTokenReturn(c, outcome) ==
    /\ calls[c].kind = "start-recording"
    /\ calls[c].pc = "generateClientToken"
    /\ IF outcome = "ok"
          THEN /\ cachedSessionToken' = SessionTokenFor(calls[c].apiKey)
               /\ tokenExpiresAt' = now + TokenLife
               /\ captureClient' = [captureClient EXCEPT !.ref = c]
               /\ calls' = [calls EXCEPT ![c].pc = "listChannels",
                                         ![c].token = SessionTokenFor(calls[c].apiKey)]
          ELSE /\ calls' = [calls EXCEPT ![c] = Fails(@)]
               /\ UNCHANGED <<cachedSessionToken, tokenExpiresAt, captureClient>>
    /\ UNCHANGED <<recordings, users, runs, http, disk, dbOpen, now, listings,
                   appConfig, uuids, diskOk, tunnelManager, children,
                   connections>>

\* captureClient.listChannels() and captureClient.startSession() return
CaptureClientReturn(c, outcome) ==
    /\ calls[c].kind = "start-recording"
    /\ calls[c].pc \in {"listChannels", "startSession"}
    /\ calls' = IF outcome = "throw" THEN [calls EXCEPT ![c] = Fails(@)]
                ELSE IF calls[c].pc = "listChannels"
                   THEN [calls EXCEPT ![c].pc = "startSession"]
                ELSE [calls EXCEPT ![c].pc = "done",
                                   ![c].result = [success |-> TRUE, userName |-> Null,
                                                  error |-> Null],
                                   ![c].order = Cardinality(Returned(calls)) + 1]
    /\ UNCHANGED <<recordings, users, runs, http, disk, dbOpen, now, listings,
                   appConfig, uuids, diskOk, tunnelManager, children,
                   cachedSessionToken, tokenExpiresAt,
                   connections, captureClient>>

\* ipcMain.handle('recorder-logout'): the saved config, the session token
\* and the connection cache are cleared; with a capture client the handler
\* then awaits captureClient.shutdown()
LogoutCall ==
    /\ Len(calls) < MaxCalls
    /\ appConfig' = NoConfig
    /\ cachedSessionToken' = Null
    /\ tokenExpiresAt' = 0
    /\ connections' = {}
    /\ calls' = Append(calls,
          IF captureClient.ref # 0
             THEN NewCall("logout", Null, Null, "shutdown", Null)
             ELSE [NewCall("logout", Null, Null, "done", Null)
                      EXCEPT !.result = [success |-> TRUE, userName |-> Null,
                                         error |-> Null]])
    /\ captureClient' = ShutdownOf(captureClient)
    /\ UNCHANGED <<recordings, users, runs, http, disk, dbOpen, now, listings,
                   uuids, diskOk, tunnelManager, children>>

\* captureClient.shutdown() returns or throws to logout call c
ShutdownReturn(c) ==
    /\ calls[c].kind = "logout"
    /\ calls[c].pc = "shutdown"
    /\ captureClient' = [captureClient EXCEPT !.ref = 0]
    /\ calls' = [calls EXCEPT ![c].pc = "done",
                              ![c].result = [success |-> TRUE, userName |-> Null,
                                             error |-> Null],
                              ![c].order = Cardinality(Returned(calls)) + 1]
    /\ UNCHANGED <<recordings, users, runs, http, disk, dbOpen, now, listings,
                   appConfig, uuids, diskOk, tunnelManager, children,
                   cachedSessionToken, tokenExpiresAt, connections>>

\* ipcMain.handle('recorder-stop-recording'), up to `await
\* captureClient.stopSession()`; without a capture client it only warns
StopRecordingCall ==
    /\ Len(calls) < MaxCalls
    /\ calls' = Append(calls,
          IF captureClient.ref # 0
             THEN NewCall("stop-recording", Null, Null, "stopSession", Null)
             ELSE [NewCall("stop-recording", Null, Null, "done", Null)
                      EXCEPT !.result = [success |-> TRUE, userName |-> Null,
                                         error |-> Null]])
    /\ UNCHANGED <<recordings, users, runs, http, disk, dbOpen, now, listings,
                   appConfig, uuids, diskOk, tunnelManager, children,
                   cachedSessionToken, tokenExpiresAt, connections, captureClient>>

\* stopSession() returns or throws to stop-recording call c, which then
\* awaits shutdown() of the client referenced now (a TypeError on null is
\* caught with the shutdown errors); or that shutdown() returns or throws,
\* and captureClient is set to null
StopRecordingReturn(c, outcome) ==
    /\ calls[c].kind = "stop-recording"
    /\ calls[c].pc \in {"stopSession", "shutdown"}
    /\ IF calls[c].pc = "stopSession" /\ outcome = "throw"
          THEN /\ calls' = [calls EXCEPT ![c] = Fails(@)]
               /\ UNCHANGED captureClient
       ELSE IF calls[c].pc = "stopSession" /\ captureClient.ref # 0
          THEN /\ calls' = [calls EXCEPT ![c].pc = "shutdown"]
               /\ captureClient' = ShutdownOf(captureClient)
       ELSE /\ calls' = [calls EXCEPT ![c].pc = "done",
                                      ![c].result = [success |-> TRUE, userName |-> Null,
                                                     error |-> Null],
                                      ![c].order = Cardinality(Returned(calls)) + 1]
            /\ captureClient' = [captureClient EXCEPT !.ref = 0]
    /\ UNCHANGED <<recordings, users, runs, http, disk, dbOpen, now, listings,
                   appConfig, uuids, diskOk, tunnelManager, children,
                   cachedSessionToken, tokenExpiresAt, connections>>

----------------------------------------------------------------------------
(* The tunnel (TunnelManager).  A child is a cloudflared process that spawn  *)
(* returned: running, never started (ENOENT) or exited; signalled once       *)
(* SIGTERM was sent to it; resolved once the promise of its start() call is  *)
(* settled, and value is what it was settled with ("pending" before).       *)

\* a TunnelManager as its constructor leaves it; 0 and Null are null
NoTunnel == [process |-> 0, publicUrl |-> Null, webhookUrl |-> Null]

\* start(port, existingWebhookUrl) with a configured webhook URL
TunnelStartConfigured ==
    /\ tunnelManager' = [tunnelManager EXCEPT !.webhookUrl = "https://env/api/webhook"]
    /\ UNCHANGED <<children,
                   recordings, users, runs, http, disk, dbOpen, now, listings,
                   appConfig, cachedSessionToken, tokenExpiresAt, calls, uuids,
                   diskOk, connections, captureClient>>

\* start(port): spawn, with the handlers and the timer of this call
TunnelStart(fate) ==
    /\ Len(children) < MaxSpawns
    /\ children' = Append(children, [state |-> fate, signalled |-> FALSE,
                                      resolved |-> FALSE, errored |-> FALSE,
                                      value |-> "pending"])
    /\ tunnelManager' = [tunnelManager EXCEPT !.process = Len(children) + 1]
    /\ UNCHANGED <<recordings, users, runs, http, disk, dbOpen, now, listings,
                   appConfig, cachedSessionToken, tokenExpiresAt, calls, uuids,
                   diskOk, connections, captureClient>>

\* stop(): SIGTERM to the referenced process, then the fields are cleared
TunnelStop ==
    /\ children' =
          IF /\ tunnelManager.process # 0
             /\ children[tunnelManager.process].state = "running"
             THEN [children EXCEPT ![tunnelManager.process].signalled = TRUE]
             ELSE children
    /\ tunnelManager' = NoTunnel
    /\ UNCHANGED <<recordings, users, runs, http, disk, dbOpen, now, listings,
                   appConfig, cachedSessionToken, tokenExpiresAt, calls, uuids,
                   diskOk, connections, captureClient>>

\* resolve(v) of the start() call of child k; the caller tested resolved
Resolve(k, v) == [children EXCEPT ![k].resolved = TRUE, ![k].value = v]

\* handleOutput without the test of resolved
ChildOutputAlways(k) ==
    /\ children[k].state = "running"
    /\ children' = IF children[k].resolved THEN children
                    ELSE Resolve(k, "https://t.trycloudflare.com/api/webhook")
    /\ tunnelManager' = [tunnelManager EXCEPT !.publicUrl = "https://t.trycloudflare.com",
                              !.webhookUrl = "https://t.trycloudflare.com/api/webhook"]
    /\ UNCHANGED <<recordings, users, runs, http, disk, dbOpen, now, listings,
                   appConfig, cachedSessionToken, tokenExpiresAt, calls, uuids,
                   diskOk, connections, captureClient>>

\* handleOutput: the child prints the tunnel URL
ChildOutput(k) ==
    /\ children[k].state = "running"
    /\ ~children[k].resolved
    /\ children' = Resolve(k, "https://t.trycloudflare.com/api/webhook")
    /\ tunnelManager' = [tunnelManager EXCEPT !.publicUrl = "https://t.trycloudflare.com",
                              !.webhookUrl = "https://t.trycloudflare.com/api/webhook"]
    /\ UNCHANGED <<recordings, users, runs, http, disk, dbOpen, now, listings,
                   appConfig, cachedSessionToken, tokenExpiresAt, calls, uuids,
                   diskOk, connections, captureClient>>

\* on('error'): the binary could not be started
ChildError(k) ==
    /\ children[k].state = "enoent"
    /\ ~children[k].errored
    /\ children' = [IF children[k].resolved THEN children ELSE Resolve(k, Null)
                        EXCEPT ![k].errored = TRUE]
    /\ UNCHANGED <<tunnelManager,
                   recordings, users, runs, http, disk, dbOpen, now, listings,
                   appConfig, cachedSessionToken, tokenExpiresAt, calls, uuids,
                   diskOk, connections, captureClient>>

\* on('exit'): the child ended, by itself or after the signal
ChildExit(k) ==
    /\ children[k].state = "running"
    /\ children' = [IF children[k].resolved THEN children ELSE Resolve(k, Null)
                        EXCEPT ![k].state = "exited"]
    /\ tunnelManager' = [tunnelManager EXCEPT !.process = 0, !.publicUrl = Null]
    /\ UNCHANGED <<recordings, users, runs, http, disk, dbOpen, now, listings,
                   appConfig, cachedSessionToken, tokenExpiresAt, calls, uuids,
                   diskOk, connections, captureClient>>

\* the 30 s timer of a start() call fires before its promise is settled
TunnelTimeout(k) ==
    /\ ~children[k].resolved
    /\ children' = Resolve(k, Null)
    /\ UNCHANGED <<tunnelManager,
                   recordings, users, runs, http, disk, dbOpen, now, listings,
                   appConfig, cachedSessionToken, tokenExpiresAt, calls, uuids,
                   diskOk, connections, captureClient>>

----------------------------------------------------------------------------
(* The system *)

\* the users table as initDatabase loads it: empty, or the registered user
User1 == [name |-> "ann", api_key |-> "k1", access_token |-> "t1"]

\* main.js module state after initializeApp; loadUserConfig has read the
\* saved accessToken and userName of the registered user, if any
ConfigOf(us) ==
    IF us = <<>> THEN NoConfig
    ELSE [accessToken |-> us[Len(us)].access_token, userName |-> us[Len(us)].name]

InitWith(us) ==
    /\ recordings = <<>>
    /\ users = us
    /\ runs = <<>>
    /\ http = <<>>
    /\ dbOpen = TRUE
    /\ now = 0
    /\ listings = <<>>
    /\ appConfig = ConfigOf(us)
    /\ cachedSessionToken = Null
    /\ tokenExpiresAt = 0
    /\ calls = <<>>
    /\ uuids = Len(us)
    /\ disk = Image(<<>>, us)
    /\ diskOk = TRUE
    /\ connections = {}
    /\ captureClient = NoClient
    /\ tunnelManager = NoTunnel
    /\ children = <<>>

DeliverFrom(R, cap) == Len(http) < cap /\ \E req \in R : Webhook(req)

IndexStepOver(T, U) ==
    \E r \in 1..Len(runs) :
        \/ \E o \in {"ok", "throw"} : GetCollectionReturn(r, o)
        \/ \E o \in {"ok", "notfound", "throw"} : GetVideoReturn(r, o)
        \/ \E o \in {"ok", "throw"} : IndexSpokenWordsReturn(r, o)
        \/ \E o \in {"ok", "throw"}, t \in T : GetTranscriptTextReturn(r, o, t)
        \/ \E o \in {"ok", "throw"}, u \in U : AddSubtitleReturn(r, o, u)

Next == DeliverFrom(Requests, MaxDeliveries) \/ IndexStepOver(Transcripts, SubtitleUrls)

Spec == (\E us \in {<<>>, <<User1>>} : InitWith(us)) /\ [][Next]_vars

\* longer delivery sequences over the sessions' re-finalizations, with a
\* registered user and an indexing service that returns full results
NextRe ==
    \/ DeliverFrom(ReDeliveries, MaxReDeliveries)
    \/ IndexStepOver({<<"h", "\"">>}, {<<"s", "2">>})

SpecRe == InitWith(<<User1>>) /\ [][NextRe]_vars

\* player URLs as the webhook payload may carry them: the url parameter
\* alone, among other parameters, with an empty value, and after a parameter
\* whose name ends in "url"
PK == <<"p", "?", "a", "=", "b", "&", "u", "r", "l", "=", "s", "1", "&", "c", "=", "d">>
PE == <<"p", "?", "u", "r", "l", "=", "&", "a", "=", "b">>
PX == <<"p", "?", "x", "u", "r", "l", "=", "a", "&", "u", "r", "l", "=", "s">>

RewritePlayerUrls == {P1, PK, PE, PX, P3}

RewriteRequests ==
    { Request(Exported, "sess1", "v1", [stream_url |-> S1, player_url |-> p]) :
        p \in RewritePlayerUrls }

\* deliveries for one session over these player URLs, with a registered user
NextRw ==
    \/ DeliverFrom(RewriteRequests, MaxRewriteDeliveries)
    \/ IndexStepOver({<<"h">>}, SubtitleUrls)

SpecRw == InitWith(<<User1>>) /\ [][NextRw]_vars

\* closeDatabase, as shutdownApp calls it: the database is saved and closed
\* and `db` is set to null; a second call does nothing
closeDatabase ==
    /\ dbOpen
    /\ dbOpen' = FALSE
    /\ disk' = saveToFile(disk, recordings, users)
    /\ UNCHANGED <<recordings, users, runs, http, now, listings, appConfig,
                   cachedSessionToken, tokenExpiresAt, calls, uuids, envVars>>

\* the events that start a shutdown
Triggers == {"window-all-closed", "before-quit", "SIGINT", "SIGTERM"}

\* process.exit, app.exit or an unprevented quit has ended the process
Exited == \E c \in 1..Len(calls) : calls[c].pc = "exit"

\* where the handler of a trigger goes once its shutdownApp() has returned:
\* SIGINT, SIGTERM and before-quit end the process (before-quit does not
\* prevent the quit when isShuttingDown is set), window-all-closed calls
\* app.quit() except on macOS
AfterShutdownApp(trigger, platform) ==
    IF trigger = "window-all-closed" /\ platform = "darwin" THEN "done" ELSE "exit"

\* shutdownApp from tunnelManager.stop() to closeDatabase(); the Express
\* server that is closed has no state in the model
Cleanup ==
    /\ children' =
          IF /\ tunnelManager.process # 0
             /\ children[tunnelManager.process].state = "running"
             THEN [children EXCEPT ![tunnelManager.process].signalled = TRUE]
             ELSE children
    /\ tunnelManager' = NoTunnel
    /\ dbOpen' = FALSE
    /\ disk' = IF dbOpen THEN saveToFile(disk, recordings, users) ELSE disk

\* a trigger's handler runs on the given platform; isShuttingDown is set
\* once a handler has called shutdownApp.  The first call awaits
\* captureClient.shutdown() when there is a capture client
ShutdownCall(trigger, platform) ==
    /\ Len(calls) < MaxCalls
    /\ ~Exited
    /\ \A c \in 1..Len(calls) : calls[c].kind \in Triggers => calls[c].name = platform
    /\ IF \E c \in 1..Len(calls) : calls[c].kind \in Triggers
          THEN /\ calls' = Append(calls, NewCall(trigger, platform, Null,
                                     AfterShutdownApp(trigger, platform), Null))
               /\ UNCHANGED <<children, tunnelManager, dbOpen, disk>>
       ELSE IF captureClient.ref # 0
          THEN /\ calls' = Append(calls, NewCall(trigger, platform, Null,
                                                 "shutdown", Null))
               /\ UNCHANGED <<children, tunnelManager, dbOpen, disk>>
       ELSE /\ calls' = Append(calls, NewCall(trigger, platform, Null,
                                  AfterShutdownApp(trigger, platform), Null))
            /\ Cleanup
    /\ captureClient' = IF \E c \in 1..Len(calls) : calls[c].kind \in Triggers
                           THEN captureClient ELSE ShutdownOf(captureClient)
    /\ UNCHANGED <<recordings, users, runs, http, now, listings, appConfig,
                   cachedSessionToken, tokenExpiresAt, uuids, diskOk,
                   connections>>

\* captureClient.shutdown() returns or throws to the shutdownApp of call c
ShutdownAppReturn(c, outcome) ==
    /\ ~Exited
    /\ calls[c].kind \in Triggers
    /\ calls[c].pc = "shutdown"
    /\ captureClient' = IF outcome = "ok" THEN [captureClient EXCEPT !.ref = 0]
                                           ELSE captureClient
    /\ calls' = [calls EXCEPT ![c].pc = AfterShutdownApp(calls[c].kind, calls[c].name),
                              ![c].order = Cardinality(Returned(calls)) + 1]
    /\ Cleanup
    /\ UNCHANGED <<recordings, users, runs, http, now, listings, appConfig,
                   cachedSessionToken, tokenExpiresAt, uuids, diskOk,
                   connections>>

\* a second of the wall clock passes
Tick ==
    /\ now < MaxClock
    /\ now' = now + 1
    /\ UNCHANGED <<recordings, users, runs, http, disk, dbOpen, listings,
                   appConfig, cachedSessionToken, tokenExpiresAt, calls, uuids,
                   envVars>>

\* the history handler's limit, and the limits getRecordings is called with
HistoryLimit == 20
Limits == {0, 1, 2, HistoryLimit}

\* what the history handler returns of a row
Listed(rs, i) ==
    [id              |-> i,
     session_id      |-> rs[i].session_id,
     stream_url      |-> rs[i].stream_url,
     player_url      |-> rs[i].player_url,
     created_at      |-> rs[i].created_at,
     insights_status |-> rs[i].insights_status,
     insights        |-> rs[i].insights]

\* a call of getRecordings(limit) whose rows are mapped as the
\* get-recordings handler maps them (the handler passes 20); a throw of the
\* store is caught and answered with the empty list
GetRecordings(limit) ==
    /\ Len(listings) < MaxListings
    /\ \E ids \in (IF DbThrows THEN {<<>>} ELSE getRecordings(recordings, limit)) :
          listings' = Append(listings,
                             [limit |-> limit,
                              at    |-> Len(http),
                              count |-> Len(recordings),
                              rows  |-> [k \in 1..Len(ids) |->
                                            Listed(recordings, ids[k])]])
    /\ UNCHANGED <<recordings, users, runs, http, disk, dbOpen, now, appConfig,
                   cachedSessionToken, tokenExpiresAt, calls, uuids, envVars>>

\* the history of a registered user: deliveries, their runs, the clock and
\* the listing
NextList ==
    \/ DeliverFrom(ReDeliveries, MaxListDeliveries)
    \/ IndexStepOver({<<"h", "\"">>}, {<<"s", "2">>})
    \/ Tick
    \/ \E limit \in Limits : GetRecordings(limit)

SpecList == InitWith(<<User1>>) /\ [][NextList]_vars

\* the same without the clock, read through the history handler only
NextRead ==
    \/ DeliverFrom(ReDeliveries, MaxListDeliveries)
    \/ IndexStepOver({<<"h", "\"">>}, {<<"s", "2">>})
    \/ GetRecordings(HistoryLimit)

SpecRead == InitWith(<<User1>>) /\ [][NextRead]_vars

\* registration on a fresh installation and the session token
Registrations ==
    {<<"ann", "k1">>, <<Undef, "k2">>, <<"bob", "bad">>}

RegRequests ==
    {Request(Exported, "sess1", "v1", PA), Request(Exported, "sess1", "v2", PB)}

NextReg ==
    \/ \E d \in Registrations : RegisterCall(d[1], d[2])
    \/ \E c \in 1..Len(calls) :
          \E o \in {"true", "false", "throw"} : VerifyApiKeyReturn(c, o)
    \/ GetSessionTokenCall
    \/ \E c \in 1..Len(calls) :
          \E o \in {"ok", "throw"} : GenerateClientTokenReturn(c, o)

SpecReg == InitWith(<<>>) /\ [][NextReg]_vars

\* registrations on a fresh installation and the webhooks that arrive
\* meanwhile
NextLatest ==
    \/ /\ Len(calls) < MaxLatestCalls
       /\ \E d \in Registrations : RegisterCall(d[1], d[2])
    \/ \E c \in 1..Len(calls) :
          \E o \in {"true", "false", "throw"} : VerifyApiKeyReturn(c, o)
    \/ DeliverFrom(RegRequests, MaxRegDeliveries)

SpecLatest == InitWith(<<>>) /\ [][NextLatest]_vars

\* the exports of one session with a registered user, in a process that
\* keeps running, also after shutdownApp has closed the database (on macOS
\* the app stays alive when its windows are closed): as long as an external
\* call is awaited, one of the awaited calls returns or throws
NextLive ==
    \/ DeliverFrom(RegRequests, MaxLiveDeliveries)
    \/ IndexStepOver({<<"h", "\"">>}, {<<"s", "2">>})
    \/ closeDatabase

SpecLive ==
    /\ InitWith(<<User1>>)
    /\ [][NextLive]_vars
    /\ WF_vars(IndexStepOver({<<"h", "\"">>}, {<<"s", "2">>}))

\* the registration from auth_config.json at launch and the registrations
\* of the onboarding form, on a fresh installation
NextAuto ==
    \/ \E d \in Registrations \cup {<<"cy", Undef>>} : AutoRegisterCall(d[1], d[2])
    \/ \E c \in 1..Len(calls) :
          \E o \in {"true", "false", "throw"} : AutoVerifyApiKeyReturn(c, o)
    \/ \E d \in Registrations : RegisterCall(d[1], d[2])
    \/ \E c \in 1..Len(calls) :
          \E o \in {"true", "false", "throw"} : VerifyApiKeyReturn(c, o)

SpecAuto == InitWith(<<>>) /\ [][NextAuto]_vars

\* the store driven through its exported functions: the rows and the update
\* maps its callers pass (the webhook's insert and update, with and without
\* URLs, the status writes of a run and its result), and maps without any
\* defined field
NewRows ==
    { [video_id |-> "v1", stream_url |-> S1, player_url |-> P1,
       session_id |-> "sess1", insights |-> UndefT, insights_status |-> "pending"],
      [video_id |-> "v2", stream_url |-> UndefT, player_url |-> UndefT,
       session_id |-> "sess2", insights |-> UndefT, insights_status |-> "pending"] }

StatusMaps == { [insights_status |-> "processing"], [insights_status |-> "failed"] }

UpdateMaps ==
    StatusMaps
    \cup { [video_id |-> "v2", stream_url |-> UndefT, player_url |-> UndefT,
            insights_status |-> "pending"],
           [insights_status |-> "ready",
            insights |-> StringifyTranscript(<<"h">>),
            stream_url |-> <<"s", "2">>, player_url |-> <<"s", "2">>],
           [stream_url |-> UndefT, player_url |-> UndefT] }

CreateRecordingCall(data) ==
    /\ dbOpen
    /\ Len(recordings) < MaxStoreRows
    /\ recordings' = createRecording(recordings, data)
    /\ disk' = saveToFile(disk, recordings', users)
    /\ UNCHANGED <<users, runs, http, appVars>>

\* an update without a defined field returns before the statement and the save
UpdateRecordingCall(id, data) ==
    /\ dbOpen
    /\ recordings' = updateRecording(recordings, id, data)
    /\ disk' = IF DefinedFields(data) = {}
                  THEN disk ELSE saveToFile(disk, recordings', users)
    /\ UNCHANGED <<users, runs, http, appVars>>

CreateUserCall(name, apiKey) ==
    /\ dbOpen
    /\ Len(users) < MaxStoreUsers
    /\ uuids < Len(Uuids)
    /\ users' = createUser(users, name, apiKey, randomUUID(uuids))
    /\ uuids' = uuids + 1
    /\ disk' = saveToFile(disk, recordings, users')
    /\ UNCHANGED <<recordings, runs, http, dbOpen, now, listings, appConfig,
                   cachedSessionToken, tokenExpiresAt, calls, envVars>>

\* an update names the id of any row, or of none
NextStore ==
    \/ \E data \in NewRows : CreateRecordingCall(data)
    \/ \E id \in 1..(Len(recordings) + 1) :
          \E data \in UpdateMaps : UpdateRecordingCall(id, data)
    \/ CreateUserCall("ann", "k1")

SpecStore == InitWith(<<>>) /\ [][NextStore]_vars

\* the same over a file system whose writes may fail, with the closing of
\* the database and the next launch, which loads the file
WriteFileSyncTurns ==
    /\ diskOk' = ~diskOk
    /\ UNCHANGED <<recordings, users, runs, http, disk, dbOpen, now, listings,
                   appConfig, cachedSessionToken, tokenExpiresAt, calls, uuids,
                   connections, captureClient, tunnelManager, children>>

\* initDatabase of the next launch: the tables are those of the file; the
\* runs and calls of the process that ended are gone with it, and the
\* process starts with the saved config and an empty session token cache
Abandoned(q) ==
    [k \in 1..Len(q) |->
        IF q[k].pc \in {"done", "rejected"} THEN q[k]
                                            ELSE [q[k] EXCEPT !.pc = "abandoned"]]

initDatabase ==
    /\ recordings' = disk.recordings
    /\ users' = disk.users
    /\ dbOpen' = TRUE
    /\ disk' = saveToFile(disk, disk.recordings, disk.users)
    /\ runs' = Abandoned(runs)
    /\ calls' = Abandoned(calls)
    /\ cachedSessionToken' = Null
    /\ tokenExpiresAt' = 0
    /\ connections' = {}
    /\ captureClient' = NoClient
    /\ UNCHANGED <<http, now, listings, appConfig, uuids, diskOk,
                   tunnelManager, children>>

NextDisk ==
    \/ \E data \in NewRows : CreateRecordingCall(data)
    \/ \E id \in 1..(Len(recordings) + 1) :
          \E data \in StatusMaps : UpdateRecordingCall(id, data)
    \/ CreateUserCall("ann", "k1")
    \/ WriteFileSyncTurns
    \/ closeDatabase
    \/ initDatabase

SpecDisk == InitWith(<<>>) /\ [][NextDisk]_vars

\* the server and its runs across the end of the process and the next
\* launch, with a registered user and a file system that works
NextCrash ==
    \/ DeliverFrom(ReDeliveries, MaxCrashDeliveries)
    \/ IndexStepOver({<<"h", "\"">>}, {<<"s", "2">>})
    \/ initDatabase

SpecCrash == InitWith(<<User1>>) /\ [][NextCrash]_vars

\* the tunnel manager under every sequence of its calls and events
NextTunnel ==
    \/ TunnelStartConfigured
    \/ \E fate \in {"running", "enoent"} : TunnelStart(fate)
    \/ TunnelStop
    \/ \E k \in 1..Len(children) :
          ChildOutput(k) \/ ChildError(k) \/ ChildExit(k) \/ TunnelTimeout(k)

\* isRunning()
isRunning == tunnelManager.process # 0 /\ tunnelManager.publicUrl # Null

\* the tunnel manager; the 30 s timer of every start() call fires in the end
SpecTunnelTimer ==
    /\ InitWith(<<>>)
    /\ [][NextTunnel]_vars
    /\ WF_vars(\E k \in 1..Len(children) : TunnelTimeout(k))

\* two sessions export their videos, and the first session exports the
\* video of the second
MatchRequests ==
    { Request(Exported, "sess1", "v1", PA), Request(Exported, "sess2", "v2", PB),
      Request(Exported, "sess1", "v2", PB) }

NextMatch ==
    \/ DeliverFrom(MatchRequests, MaxMatchDeliveries)
    \/ IndexStepOver({<<"h", "\"">>}, {<<"s", "2">>})

SpecMatch == InitWith(<<User1>>) /\ [][NextMatch]_vars

\* a registered user who records, registers again and logs out
NextLogout ==
    \/ \E d \in Registrations : RegisterCall(d[1], d[2])
    \/ \E c \in 1..Len(calls) :
          \E o \in {"true", "false", "throw"} : VerifyApiKeyReturn(c, o)
    \/ StartRecordingCall
    \/ \E c \in 1..Len(calls) :
          \E o \in {"ok", "throw"} :
              \/ CreateCaptureSessionReturn(c, o)
              \/ StartRecordingTokenReturn(c, o)
              \/ CaptureClientReturn(c, o)
    \/ LogoutCall
    \/ \E c \in 1..Len(calls) : ShutdownReturn(c)

SpecLogout == InitWith(<<User1>>) /\ [][NextLogout]_vars

\* a registered user who starts and stops recordings and logs out while
\* the shutdown triggers arrive
NextShutdown ==
    \/ ~Exited /\ StartRecordingCall
    \/ ~Exited /\ StopRecordingCall
    \/ ~Exited /\ LogoutCall
    \/ \E c \in 1..Len(calls) :
          \E o \in {"ok", "throw"} :
              \/ ~Exited /\ CreateCaptureSessionReturn(c, o)
              \/ ~Exited /\ StartRecordingTokenReturn(c, o)
              \/ ~Exited /\ CaptureClientReturn(c, o)
              \/ ~Exited /\ StopRecordingReturn(c, o)
              \/ ~Exited /\ ShutdownReturn(c)
              \/ ShutdownAppReturn(c, o)
    \/ \E t \in Triggers, p \in {"darwin", "linux"} : ShutdownCall(t, p)

SpecShutdown == InitWith(<<User1>>) /\ [][NextShutdown]_vars

\* events of every name with a full payload, among the exports of a session
EventNames == {"capture_session.started", "capture_session.active", "ping", "", Undef}

EventRequests ==
    { Request(e, "sess1", "v1", PA) : e \in EventNames }
    \cup { Request(e, "sess2", "v2", PB) : e \in {"capture_session.started"} }
    \cup { Request(Exported, "sess1", "v1", PA) }

NextEvents ==
    \/ DeliverFrom(EventRequests, MaxEventDeliveries)
    \/ IndexStepOver({<<"h", "\"">>}, {<<"s", "2">>})

SpecEvents == (\E us \in {<<>>, <<User1>>} : InitWith(us)) /\ [][NextEvents]_vars

\* the server and its runs around the closing of the database: requests on
\* connections that are still open and runs still awaiting go on after it
NextClose ==
    \/ DeliverFrom(Requests, MaxCloseDeliveries)
    \/ IndexStepOver(Transcripts, SubtitleUrls)
    \/ closeDatabase

SpecClose == (\E us \in {<<>>, <<User1>>} : InitWith(us)) /\ [][NextClose]_vars

----------------------------------------------------------------------------
(* Properties *)

\* this step handled a webhook request
Delivered == Len(http') = Len(http) + 1

\* the exchange of this step
Exchange == http'[Len(http')]

IsExport(x) == x.req.event = Exported /\ Truthy(x.req.video)

\* the rows other than row i are as they were
OthersUnchanged(i) ==
    \A j \in Ids(recordings) : j # i => recordings'[j] = recordings[j]

\* C1: an exported delivery for a session that already has a row, carrying
\* another video id than the row's, updates that row in place: the row keeps
\* its id and session, no row is added, the row's video_id becomes the
\* delivery's video id, and the delivery is acknowledged.
C1_UpdatesInPlace ==
    [][Delivered =>
         \A i \in Ids(recordings) :
            ( /\ IsExport(Exchange)
              /\ Truthy(Exchange.req.session)
              /\ recordings[i].session_id = Exchange.req.session
              /\ recordings[i].video_id # Exchange.req.video )
            => /\ Len(recordings') = Len(recordings)
               /\ recordings'[i].video_id = Exchange.req.video
               /\ recordings'[i].session_id = Exchange.req.session
               /\ Exchange.row = i
               /\ Exchange.status = 200]_vars

\* two deliveries of one session with different video ids were handled and
\* the table holds the one row, with the second video id
C1_Witness ==
    /\ Len(http) = 2
    /\ IsExport(http[1]) /\ IsExport(http[2])
    /\ http[1].req.session = "sess1" /\ http[2].req.session = "sess1"
    /\ http[1].req.video = "v1" /\ http[2].req.video = "v2"
    /\ http[1].log = "created" /\ http[2].log = "updated"
    /\ Len(recordings) = 1
    /\ recordings[1].video_id = "v2"

C3_MissingVideoIsNoOp ==
    [][( /\ Delivered
         /\ Exchange.req.event = Exported
         /\ ~Truthy(Exchange.req.video) )
       => /\ recordings' = recordings
          /\ runs' = runs
          /\ Exchange.status = 200]_vars

\* a delivery without video id for a session whose row exists and is being
\* indexed
C3_Witness ==
    /\ Len(http) = 2
    /\ http[2].req.event = Exported /\ http[2].req.video = Undef
    /\ http[2].req.session = "sess1"
    /\ http[2].status = 200
    /\ Len(recordings) = 1
    /\ recordings[1].session_id = "sess1"
    /\ recordings[1].insights_status = "processing"

\* C4: no two rows have the same session id.
C4_OneRowPerSession ==
    \A i, j \in Ids(recordings) :
        (i # j /\ recordings[i].session_id # Null)
        => recordings[i].session_id # recordings[j].session_id

\* a session was delivered twice, the second time while its first run was
\* still in flight, and has one row
C4_Witness ==
    /\ Len(http) = 2
    /\ http[1].req.session = "sess2" /\ http[2].req.session = "sess2"
    /\ http[1].log = "created" /\ http[2].log = "updated"
    /\ Len(runs) = 2 /\ runs[1].pc # "done"
    /\ Len(recordings) = 1

\* C5: no two rows have the same video id.
C5_OneRowPerVideo ==
    \A i, j \in Ids(recordings) :
        (i # j /\ recordings[i].video_id # Null)
        => recordings[i].video_id # recordings[j].video_id

Terminal == {"ready", "failed"}

StatusOf(rs, run) == rs[run.recordingId].insights_status

\* C6: the statuses one run writes are 'processing' when it begins, then one
\* of 'ready' and 'failed' when it ends, and nothing afterwards; a run never
\* writes 'pending', and only the step that ends a run changes a row outside
\* a webhook.
C6_RunWritesProcessingThenTerminal ==
    [][/\ \A r \in 1..Len(runs) :
             /\ runs[r].pc = "done" => runs'[r] = runs[r]
             /\ runs'[r].pc = "done" /\ runs[r].pc # "done"
                => /\ runs[r].writes = <<"processing">>
                   /\ Len(runs'[r].writes) = 2
                   /\ runs'[r].writes[1] = "processing"
                   /\ runs'[r].writes[2] \in Terminal
                   /\ StatusOf(recordings', runs'[r]) = runs'[r].writes[2]
                   /\ OthersUnchanged(runs[r].recordingId)
             /\ runs'[r].pc # "done" => runs'[r].writes = runs[r].writes
       /\ \A r \in (Len(runs) + 1)..Len(runs') :
             /\ Delivered
             /\ runs'[r].writes = <<"processing">>
             /\ runs'[r].pc # "done"
             /\ StatusOf(recordings', runs'[r]) = "processing"
       /\ (~Delivered /\ recordings' # recordings)
             => \E r \in 1..Len(runs) : runs[r].pc # "done" /\ runs'[r].pc = "done"]_vars

\* two runs have ended, one with each terminal status
C6_Witness ==
    \E r, q \in 1..Len(runs) :
        /\ runs[r].pc = "done" /\ runs[r].writes = <<"processing", "ready">>
        /\ runs[q].pc = "done" /\ runs[q].writes = <<"processing", "failed">>

\* C7: a row whose status is 'ready' or 'failed' changes status only in the
\* handling of an exported webhook for the row's session; in particular it
\* never goes from 'ready' to 'failed' or from 'failed' to 'ready'.
C7_TerminalIsSticky ==
    [][\A i \in Ids(recordings) :
          ( /\ recordings[i].insights_status \in Terminal
            /\ recordings'[i].insights_status # recordings[i].insights_status )
          => /\ Delivered
             /\ IsExport(Exchange)
             /\ Exchange.req.session = recordings[i].session_id]_vars

\* C8: the end of a run that was started for another video id than the one
\* its row now has (a later webhook re-finalized the session) leaves the
\* row's video_id, stream_url and player_url as that webhook wrote them.
C8_StaleRunKeepsWebhookFields ==
    [][\A r \in 1..Len(runs) :
          ( /\ runs[r].pc # "done"
            /\ runs'[r].pc = "done"
            /\ recordings[runs[r].recordingId].video_id # runs[r].videoId )
          => /\ recordings'[runs[r].recordingId].video_id
                  = recordings[runs[r].recordingId].video_id
             /\ recordings'[runs[r].recordingId].stream_url
                  = recordings[runs[r].recordingId].stream_url
             /\ recordings'[runs[r].recordingId].player_url
                  = recordings[runs[r].recordingId].player_url]_vars

\* reading back what JSON.stringify wrote: JSON.parse(text).transcript, or
\* SyntaxError when the text is not the JSON of such an object
SyntaxError == <<"SyntaxError">>

RECURSIVE JsonUnescape(_)
JsonUnescape(t) ==
    IF t = <<>> THEN <<>>
    ELSE IF Head(t) = "\"" THEN SyntaxError
    ELSE IF Head(t) = "\\"
       THEN IF Len(t) < 2 \/ t[2] \notin {"\"", "\\"}
               THEN SyntaxError
               ELSE LET rest == JsonUnescape(Tail(Tail(t)))
                    IN  IF rest = SyntaxError THEN SyntaxError ELSE <<t[2]>> \o rest
    ELSE LET rest == JsonUnescape(Tail(t))
         IN  IF rest = SyntaxError THEN SyntaxError ELSE <<Head(t)>> \o rest

ParseTranscript(x) ==
    IF /\ Len(x) >= 8
       /\ SubSeq(x, 1, 6) = <<"{", "\"", "transcript", "\"", ":", "\"">>
       /\ SubSeq(x, Len(x) - 1, Len(x)) = <<"\"", "}">>
       THEN JsonUnescape(SubSeq(x, 7, Len(x) - 2))
       ELSE SyntaxError

RunsOf(rns, i) == {r \in 1..Len(rns) : rns[r].recordingId = i}

\* this step ends run r
Ends(r) == runs[r].pc # "done" /\ runs'[r].pc = "done"

\* C9: with a user registered, an exported webhook of a session that has no
\* row, with a video id no row has, adds exactly one row, stored with status
\* 'pending', and starts exactly one run, for that row; when that run ends
\* with a non-empty transcript t and a non-empty subtitle URL u and no webhook
\* came after, the row is 'ready', its insights parse back to {transcript: t}
\* and its stream_url is u.
C9_FreshSessionIsIndexed ==
    [][/\ ( /\ Delivered
            /\ IsExport(Exchange)
            /\ users # <<>>
            /\ Exchange.req.session \in SessionIds
            /\ Exchange.req.video \in VideoIds
            /\ \A i \in Ids(recordings) :
                  /\ recordings[i].session_id # Exchange.req.session
                  /\ recordings[i].video_id # Exchange.req.video )
          => /\ Exchange.status = 200
             /\ Exchange.log = "created"
             /\ Len(recordings') = Len(recordings) + 1
             /\ \A i \in Ids(recordings) : recordings'[i] = recordings[i]
             /\ Exchange.row = Len(recordings')
             /\ Exchange.written = "pending"
             /\ Last(recordings').session_id = Exchange.req.session
             /\ Last(recordings').video_id = Exchange.req.video
             /\ Len(runs') = Len(runs) + 1
             /\ Exchange.run = Len(runs')
             /\ RunsOf(runs', Exchange.row) = {Exchange.run}
             /\ Last(runs').videoId = Exchange.req.video
       /\ \A r \in 1..Len(runs) :
             ( /\ Ends(r)
               /\ Last(http).log = "created"
               /\ Last(http).run = r
               /\ TruthyT(runs'[r].transcript)
               /\ TruthyT(runs'[r].subtitleUrl) )
             => /\ recordings'[Last(http).row].insights_status = "ready"
                /\ ParseTranscript(recordings'[Last(http).row].insights)
                      = runs'[r].transcript
                /\ recordings'[Last(http).row].stream_url = runs'[r].subtitleUrl]_vars

\* the run of the last webhook, which created its row, has ended with a
\* transcript and a subtitle URL
C9_Witness ==
    /\ http # <<>>
    /\ users # <<>>
    /\ Last(http).log = "created"
    /\ Last(http).run # 0
    /\ runs[Last(http).run].pc = "done"
    /\ TruthyT(runs[Last(http).run].transcript)
    /\ TruthyT(runs[Last(http).run].subtitleUrl)
    /\ recordings[Last(http).row].insights_status = "ready"

\* the text cut at every occurrence of the character c
RECURSIVE SplitOn(_, _)
SplitOn(t, c) ==
    IF \A k \in 1..Len(t) : t[k] # c
       THEN <<t>>
       ELSE LET k == Min({j \in 1..Len(t) : t[j] = c})
            IN  <<SubSeq(t, 1, k - 1)>> \o SplitOn(SubSeq(t, k + 1, Len(t)), c)

RECURSIVE JoinWith(_, _)
JoinWith(ps, c) ==
    IF Len(ps) = 0 THEN <<>>
    ELSE IF Len(ps) = 1 THEN ps[1]
    ELSE ps[1] \o <<c>> \o JoinWith(Tail(ps), c)

\* the URL with the value of each query parameter named url set to u
SubstituteUrlParam(playerUrl, u) ==
    IF \A k \in 1..Len(playerUrl) : playerUrl[k] # "?"
       THEN playerUrl
       ELSE LET k == Min({j \in 1..Len(playerUrl) : playerUrl[j] = "?"})
                params == SplitOn(SubSeq(playerUrl, k + 1, Len(playerUrl)), "&")
            IN  SubSeq(playerUrl, 1, k)
                \o JoinWith([i \in 1..Len(params) |->
                                IF At(params[i], UrlEq, 1) THEN UrlEq \o u
                                                           ELSE params[i]], "&")

\* C10: when a run ends with a subtitle URL u and the row's player_url
\* contains 'url=', the new player_url is the stored one with the value of
\* its url query parameter replaced by u and every other parameter kept.
C10_PlayerUrlParameterSubstitution ==
    [][\A r \in 1..Len(runs) :
          ( /\ Ends(r)
            /\ TruthyT(runs'[r].subtitleUrl)
            /\ Includes(recordings[runs[r].recordingId].player_url, UrlEq) )
          => recordings'[runs[r].recordingId].player_url
                = SubstituteUrlParam(recordings[runs[r].recordingId].player_url,
                                     runs'[r].subtitleUrl)]_vars

\* C11: when a run ends with a subtitle URL u and the row's stored player_url
\* is absent or does not contain 'url=', the row's player_url becomes u.
C11_PlayerUrlFallback ==
    [][\A r \in 1..Len(runs) :
          ( /\ Ends(r)
            /\ dbOpen
            /\ TruthyT(runs'[r].subtitleUrl)
            /\ \/ ~TruthyT(recordings[runs[r].recordingId].player_url)
               \/ ~Includes(recordings[runs[r].recordingId].player_url, UrlEq) )
          => recordings'[runs[r].recordingId].player_url = runs'[r].subtitleUrl]_vars

\* a run has ended with a subtitle URL on a row whose webhooks carried a
\* player_url without 'url=', or none, and the row's player_url is that URL
C11_Witness ==
    \E r \in 1..Len(runs) :
        /\ runs[r].pc = "done"
        /\ TruthyT(runs[r].subtitleUrl)
        /\ recordings[runs[r].recordingId].player_url = runs[r].subtitleUrl
        /\ \E k \in 1..Len(http) :
              /\ http[k].row = runs[r].recordingId
              /\ http[k].req.player_url = P3
        /\ \A k \in 1..Len(http) :
              http[k].row = runs[r].recordingId
              => http[k].req.player_url \in {P3, UndefT}

\* C12: every parsed webhook body is answered 200 (the acknowledgment
\* {status: 'ok', received: true}): whatever the event name, without event,
\* without video id, for a duplicate video, an unknown session and without
\* user; 500 is answered only when a store call of the handler throws, which
\* happens when the database is closed or the session id is undefined.
C12_AcknowledgedUnlessThrows ==
    [][Delivered =>
        /\ Exchange.status \in {200, 500}
        /\ ~Truthy(Exchange.req.event) => Exchange.status = 200
        /\ Exchange.req.event # Exported => Exchange.status = 200
        /\ ~Truthy(Exchange.req.video) => Exchange.status = 200
        /\ (dbOpen /\ Exchange.req.session # Undef) => Exchange.status = 200
        /\ Exchange.status = 500
              => /\ IsExport(Exchange)
                 /\ Truthy(Exchange.req.video)
                 /\ DbThrows \/ BindThrows(Exchange.req.session)
                 /\ recordings' = recordings
                 /\ runs' = runs]_vars

\* a store call threw on the closed database and was answered 500, and a
\* body without a video id and a body of another event were answered 200
C12_Witness ==
    /\ \E k \in 1..Len(http) :
          /\ http[k].status = 500
          /\ http[k].req.session \in SessionIds
    /\ \E k \in 1..Len(http) :
          /\ http[k].status = 200
          /\ http[k].log \in {"no_video", "other", "no_event"}

\* C13: the response to a delivery that starts a run is sent while the run
\* still awaits its first external call, it is the 200 acknowledgment, and no
\* later step (the run ending 'ready' or 'failed') changes an exchange.
C13_AcknowledgedBeforeIndexing ==
    [][/\ ( Delivered /\ Exchange.run # 0 )
          => /\ Exchange.status = 200
             /\ runs'[Exchange.run].pc = "getCollection"
             /\ runs'[Exchange.run].writes = <<"processing">>
       /\ \A k \in 1..Len(http) : http'[k] = http[k]]_vars

\* two deliveries were acknowledged alike; the run of one has ended 'ready',
\* the run of the other 'failed'
C13_Witness ==
    \E j, k \in 1..Len(http) :
        /\ http[j].run # 0 /\ http[k].run # 0
        /\ http[j].status = 200 /\ http[k].status = 200
        /\ runs[http[j].run].writes = <<"processing", "ready">>
        /\ runs[http[k].run].writes = <<"processing", "failed">>

\* this step ends run r on a failure of indexVideo (video not found, or an
\* external call threw)
EndsFailed(r) == Ends(r) /\ runs'[r].subtitleUrl = UndefT

\* C14: a run whose video is not found or whose external call throws writes
\* 'failed' to its row (nothing, when the database is closed), never rejects
\* into its caller, and makes no further call: an ended run never moves
\* again and runs are started by webhooks only.
C14_FailurePersistedNotPropagated ==
    [][/\ \A r \in 1..Len(runs) :
             /\ EndsFailed(r)
                => /\ dbOpen => StatusOf(recordings', runs[r]) = "failed"
                   /\ dbOpen => runs'[r].writes = <<"processing", "failed">>
                   /\ ~dbOpen => recordings' = recordings
             /\ Ends(r) => ~runs'[r].rejected
             /\ runs[r].pc = "done" => runs'[r] = runs[r]
       /\ Len(runs') # Len(runs) => Delivered]_vars

\* one run failed and wrote 'failed'; another failed after the database was
\* closed, wrote nothing and did not reject
C14_Witness ==
    /\ ~dbOpen
    /\ \E r, q \in 1..Len(runs) :
          /\ runs[r].pc = "done" /\ runs[r].subtitleUrl = UndefT
          /\ runs[r].writes = <<"processing", "failed">>
          /\ runs[q].pc = "done" /\ runs[q].subtitleUrl = UndefT
          /\ runs[q].writes = <<"processing">>
          /\ ~runs[q].rejected
          /\ StatusOf(recordings, runs[q]) = "processing"

\* the last of the first n exchanges that wrote row i, 0 when there is none
LastWriter(i, n) ==
    LET W == {k \in 1..n : http[k].row = i}
    IN  IF W = {} THEN 0 ELSE CHOOSE k \in W : \A j \in W : j <= k

\* exchange k started a run on the row it wrote
StartedRunOnItsRow(k) ==
    /\ k # 0
    /\ http[k].run # 0
    /\ runs[http[k].run].recordingId = http[k].row

\* C15: a run's first write is 'processing', made in the step of the webhook
\* that starts it, before any external call returns; so a row whose last
\* webhook started a run on it is never 'pending', neither in the table at
\* any moment nor in a history listing taken after that webhook.
C15_NoPendingOnceBegun ==
    /\ \A r \in 1..Len(runs) : runs[r].writes[1] = "processing"
    /\ \A i \in Ids(recordings) :
          StartedRunOnItsRow(LastWriter(i, Len(http)))
          => recordings[i].insights_status # "pending"
    /\ \A l \in 1..Len(listings) :
          \A e \in 1..Len(listings[l].rows) :
             StartedRunOnItsRow(LastWriter(listings[l].rows[e].id, listings[l].at))
             => listings[l].rows[e].insights_status # "pending"

\* a listing taken while a run awaited its first external call shows the
\* run's row as 'processing'
C15_Witness ==
    \E l \in 1..Len(listings) :
        \E e \in 1..Len(listings[l].rows) :
            /\ StartedRunOnItsRow(LastWriter(listings[l].rows[e].id, listings[l].at))
            /\ listings[l].rows[e].insights_status = "processing"
            /\ listings[l].at = Len(http)
            /\ runs[Last(http).run].pc = "getCollection"

\* the ids of the m rows created last among the first n
MostRecent(n, m) == {i \in 1..n : i > n - m}

\* C16: a listing with limit n holds at most n rows, in non-increasing order
\* of created_at, and they are the n rows created last (all rows when there
\* are fewer than n).
C16_ListingIsMostRecentFirst ==
    \A l \in 1..Len(listings) :
        LET rows == listings[l].rows
            n    == listings[l].limit
        IN  /\ Len(rows) <= n
            /\ \A a, b \in 1..Len(rows) :
                  a < b => rows[a].created_at >= rows[b].created_at
            /\ {rows[k].id : k \in 1..Len(rows)}
                  = MostRecent(listings[l].count,
                               IF n < listings[l].count THEN n
                                                        ELSE listings[l].count)

\* this step ends register call c
RegisterEnds(c) ==
    /\ calls[c].kind = "register"
    /\ calls[c].pc = "verifyApiKey"
    /\ calls'[c].pc = "done"

UsersWithKey(us, apiKey) == {i \in 1..Len(us) : us[i].api_key = apiKey}

\* C17: every successful registration ends with the app config holding the
\* access token of the one user row of its credential; when the credential
\* already has a row, that row's token is reused: no row is added and no
\* UUID is drawn, also when the earlier registration of the credential was
\* still suspended at verifyApiKey when this one was called.
C17_ReRegistrationReusesToken ==
    [][/\ \A c \in 1..Len(calls) :
             ( RegisterEnds(c) /\ calls'[c].result.success = TRUE )
             => /\ Cardinality(UsersWithKey(users', calls[c].apiKey)) = 1
                /\ \A i \in UsersWithKey(users', calls[c].apiKey) :
                      appConfig'.accessToken = users'[i].access_token
                /\ UsersWithKey(users, calls[c].apiKey) # {}
                      => users' = users /\ uuids' = uuids
                /\ UsersWithKey(users, calls[c].apiKey) = {}
                      => Len(users') = Len(users) + 1 /\ uuids' = uuids + 1
       /\ \A i \in 1..Len(users) : users'[i] = users[i]
       /\ uuids' = Len(users')]_vars

\* two registrations of one credential were suspended together, the one
\* called second returned first, both succeeded, and one token was drawn
C17_Witness ==
    \E c, d \in 1..Len(calls) :
        /\ c < d
        /\ calls[c].kind = "register" /\ calls[d].kind = "register"
        /\ calls[c].apiKey = calls[d].apiKey
        /\ calls[c].pc = "done" /\ calls[d].pc = "done"
        /\ calls[c].result.success = TRUE /\ calls[d].result.success = TRUE
        /\ calls[d].order < calls[c].order
        /\ Cardinality(UsersWithKey(users, calls[c].apiKey)) = 1
        /\ uuids = 1

\* C18: a register call whose verifyApiKey returned false returns
\* {success: false, error} and changes nothing: users, the UUIDs drawn, the
\* app config's access token and user name, and the session token cache.
C18_InvalidCredentialChangesNothing ==
    [][\A c \in 1..Len(calls) :
          ( RegisterEnds(c) /\ calls'[c].valid = "false" )
          => /\ calls'[c].result.success = FALSE
             /\ calls'[c].result.error = "Invalid API key"
             /\ users' = users
             /\ uuids' = uuids
             /\ appConfig' = appConfig
             /\ cachedSessionToken' = cachedSessionToken
             /\ tokenExpiresAt' = tokenExpiresAt]_vars

\* a refused registration has returned while a user is signed in and a
\* session token is cached
C18_Witness ==
    /\ \E c \in 1..Len(calls) :
          /\ calls[c].kind = "register"
          /\ calls[c].valid = "false"
          /\ calls[c].result.success = FALSE
          /\ calls[c].order = Cardinality(Returned(calls))
    /\ Truthy(appConfig.accessToken)
    /\ Truthy(cachedSessionToken)

C20_RunGetsTheWrittenRow ==
    [][( Delivered /\ Exchange.run # 0 )
        => runs'[Exchange.run].recordingId = Exchange.row]_vars

\* C23: a webhook whose event is another 'capture_session.*' event, an
\* unrelated event, the empty string or absent is answered 200, changes no
\* recording and no user and starts no run, whatever payload it carries.
C23_OtherEventsAreNoOps ==
    [][( Delivered /\ Exchange.req.event # Exported )
        => /\ Exchange.status = 200
           /\ recordings' = recordings
           /\ users' = users
           /\ runs' = runs]_vars

\* with a user registered and a row of sess1, an event of the family and an
\* unrelated event were delivered with session and video ids no row has
C23_Witness ==
    /\ Len(http) = 3
    /\ users # <<>>
    /\ http[1].log = "created"
    /\ http[2].req.event = "capture_session.started"
    /\ http[2].req.session = "sess2" /\ http[2].req.video = "v2"
    /\ http[3].req.event = "ping"
    /\ http[2].status = 200 /\ http[3].status = 200
    /\ Len(recordings) = 1 /\ Len(runs) = 1

\* C25: an exported delivery whose session id is that of row A and whose
\* video id is that of another row B updates row A in place: no row is added,
\* A's video_id and URLs become the delivery's, the status written to A is
\* 'pending', and the delivery is answered 200 and not skipped as a duplicate.
C25_SessionMatchFirst ==
    [][Delivered =>
         \A a, b \in Ids(recordings) :
            ( /\ IsExport(Exchange)
              /\ a # b
              /\ Truthy(Exchange.req.session)
              /\ recordings[a].session_id = Exchange.req.session
              /\ recordings[b].video_id = Exchange.req.video )
            => /\ Exchange.status = 200
               /\ Exchange.log = "updated"
               /\ Exchange.row = a
               /\ Exchange.written = "pending"
               /\ Len(recordings') = Len(recordings)
               /\ recordings'[a].video_id = Exchange.req.video
               /\ recordings'[a].session_id = recordings[a].session_id
               /\ Exchange.req.stream_url # UndefT
                     => recordings'[a].stream_url = Exchange.req.stream_url
               /\ Exchange.req.player_url # UndefT
                     => recordings'[a].player_url = Exchange.req.player_url
               /\ recordings'[a].insights_status \in {"pending", "processing"}]_vars

\* sess1's row had v1 and sess2's row v2; a delivery of v2 for sess1 updated
\* sess1's row
C25_Witness ==
    /\ Len(http) = 3
    /\ http[1].req.session = "sess1" /\ http[1].req.video = "v1"
    /\ http[2].req.session = "sess2" /\ http[2].req.video = "v2"
    /\ http[3].req.session = "sess1" /\ http[3].req.video = "v2"
    /\ http[1].log = "created" /\ http[2].log = "created"
    /\ http[3].log = "updated" /\ http[3].row = 1
    /\ recordings[1].video_id = "v2"
    /\ recordings[2].video_id = "v2"

\* C26: as long as the run of the last delivery that wrote a row has not
\* ended, the row's video_id, stream_url and player_url are those of that
\* delivery (a URL the delivery does not carry aside), whichever runs of
\* earlier deliveries have ended meanwhile.
C26_RowReflectsLastDelivery ==
    \A i \in Ids(recordings) :
        LET k == LastWriter(i, Len(http))
        IN  ( /\ k # 0
              /\ http[k].run = 0 \/ runs[http[k].run].pc # "done" )
            => /\ recordings[i].video_id = http[k].req.video
               /\ http[k].req.stream_url # UndefT
                     => recordings[i].stream_url = http[k].req.stream_url
               /\ http[k].req.player_url # UndefT
                     => recordings[i].player_url = http[k].req.player_url

\* the runs that have not ended
InFlight(rns) == {r \in 1..Len(rns) : rns[r].pc # "done"}

\* C27: no two runs that have not ended are on the same recording id.
C27_OneRunInFlightPerRecording ==
    \A r, q \in InFlight(runs) :
        r # q => runs[r].recordingId # runs[q].recordingId

\* C28: a run whose video was found and none of whose calls threw ends with
\* 'ready' written to its row, whatever the transcript and the subtitle URL
\* are; with an empty transcript the row's insights stay as they were, and
\* with an empty subtitle URL its stream_url and player_url stay as they were.
C28_PartialSuccessIsReady ==
    [][\A r \in 1..Len(runs) :
          ( Ends(r) /\ runs'[r].subtitleUrl # UndefT )
          => /\ runs'[r].writes = <<"processing", "ready">>
             /\ StatusOf(recordings', runs[r]) = "ready"
             /\ OthersUnchanged(runs[r].recordingId)
             /\ ~TruthyT(runs'[r].transcript)
                   => recordings'[runs[r].recordingId].insights
                         = recordings[runs[r].recordingId].insights
             /\ ~TruthyT(runs'[r].subtitleUrl)
                   => /\ recordings'[runs[r].recordingId].stream_url
                            = recordings[runs[r].recordingId].stream_url
                      /\ recordings'[runs[r].recordingId].player_url
                            = recordings[runs[r].recordingId].player_url]_vars

\* a run got an empty transcript and no subtitle URL and its row is 'ready'
\* with the URLs of its webhook and no insights; another run got a transcript
\* only
C28_Witness ==
    \E r, q \in 1..Len(runs) :
        /\ runs[r].pc = "done"
        /\ runs[r].transcript = <<>> /\ runs[r].subtitleUrl = <<>>
        /\ recordings[runs[r].recordingId].insights_status = "ready"
        /\ recordings[runs[r].recordingId].insights = NullT
        /\ recordings[runs[r].recordingId].stream_url = S1
        /\ runs[q].pc = "done"
        /\ TruthyT(runs[q].transcript) /\ runs[q].subtitleUrl = <<>>
        /\ recordings[runs[q].recordingId].insights_status = "ready"
        /\ TruthyT(recordings[runs[q].recordingId].insights)

\* C21: an update of row id with an update map changes, in that row, exactly
\* the fields the map defines, to the map's values, and changes no other row
\* and adds none; a status write ('processing', 'failed') changes
\* insights_status only, a webhook's map without stream_url and player_url
\* leaves the stored URLs, and a map without a defined field changes nothing.
C21_UpdateChangesItsFieldsOnly ==
    [][\A id \in 1..(Len(recordings) + 1) :
          \A data \in UpdateMaps :
             UpdateRecordingCall(id, data)
             => /\ Len(recordings') = Len(recordings)
                /\ \A j \in Ids(recordings) : j # id => recordings'[j] = recordings[j]
                /\ id \in Ids(recordings)
                      => \A f \in DOMAIN recordings[id] :
                            recordings'[id][f] =
                               IF f \in DOMAIN data /\ ~IsUndefined(f, data[f])
                                  THEN data[f] ELSE recordings[id][f]
                /\ (id \in Ids(recordings) /\ data \in StatusMaps)
                      => recordings'[id] =
                            [recordings[id] EXCEPT
                                !.insights_status = data.insights_status]
                /\ (id \in Ids(recordings) /\ "video_id" \in DOMAIN data
                                           /\ data.stream_url = UndefT)
                      => /\ recordings'[id].stream_url = recordings[id].stream_url
                         /\ recordings'[id].player_url = recordings[id].player_url
                         /\ recordings'[id].video_id = data.video_id
                /\ (\A f \in DOMAIN data : IsUndefined(f, data[f]))
                      => recordings' = recordings]_vars

\* the first of two rows was updated by a webhook's map without URLs and
\* then by a status write: it has the new video id, the URLs it was created
\* with and the status; the second row is as it was created
C21_Witness ==
    /\ Len(recordings) = 2
    /\ recordings[1].session_id = "sess1"
    /\ recordings[1].video_id = "v2"
    /\ recordings[1].stream_url = S1 /\ recordings[1].player_url = P1
    /\ recordings[1].insights_status = "failed"
    /\ recordings[2].session_id = "sess2"
    /\ recordings[2].stream_url = NullT
    /\ recordings[2].insights_status = "pending"

\* C22: at the end of every operation that changes a table (user insert,
\* recording insert, recording update) the database file holds the tables
\* as they are in memory.
C22_WritesAreFlushed ==
    [][(recordings' # recordings \/ users' # users)
        => disk' = Image(recordings', users')]_vars

\* row i has a run that the end of the process abandoned
AbandonedOn(i) ==
    \E r \in 1..Len(runs) : runs[r].pc = "abandoned" /\ runs[r].recordingId = i

\* the session id of the delivery that started run q
StarterSession(q) ==
    LET k == CHOOSE j \in 1..Len(http) : http[j].run = q
    IN  http[k].req.session

\* C29: the end of the process and the next launch leave every row as it
\* was, the rows of the runs in flight included, and those runs never move
\* again; afterwards the status of such a row changes only in the handling
\* of an exported webhook for the row's session or at the end of a run that
\* such a webhook started.
C29_AbandonedRowStaysProcessing ==
    [][/\ (\E r \in 1..Len(runs) :
              runs[r].pc # "abandoned" /\ runs'[r].pc = "abandoned")
          => recordings' = recordings
       /\ \A r \in 1..Len(runs) :
             runs[r].pc = "abandoned" => runs'[r] = runs[r]
       /\ \A i \in Ids(recordings) :
             ( /\ AbandonedOn(i)
               /\ recordings'[i].insights_status # recordings[i].insights_status )
             => \/ /\ Delivered
                   /\ IsExport(Exchange)
                   /\ Exchange.req.session = recordings[i].session_id
                \/ \E q \in 1..Len(runs) :
                      /\ Ends(q)
                      /\ runs[q].recordingId = i
                      /\ StarterSession(q) = recordings[i].session_id]_vars

\* the spawned processes that are running
Alive == {k \in 1..Len(children) : children[k].state = "running"}

\* C24: at most one spawned tunnel process is running, and a running process
\* is the one the manager references.
C24_AtMostOneTunnelProcess ==
    /\ Cardinality(Alive) <= 1
    /\ \A k \in Alive : tunnelManager.process = k

\* this step returns from a logout call
LogoutReturns ==
    \E c \in 1..Len(calls') :
        /\ calls'[c].kind = "logout"
        /\ calls'[c].pc = "done"
        /\ c > Len(calls) \/ calls[c].pc # "done"

\* C30: the connection cache never holds two connections of one credential,
\* and it is empty when a logout call returns.
C30_CacheEmptyAfterLogout ==
    [][/\ \A a, b \in connections' : a[1] = b[1] => a = b
       /\ LogoutReturns => connections' = {}]_vars

\* C31: the users table never holds two rows of one credential, and a row
\* is added only in the step in which verifyApiKey returned true to a
\* register or auto-register call of the row's credential, which is one the
\* service accepts.
C31_OneVerifiedUserPerCredential ==
    [][/\ \A i, j \in 1..Len(users') :
             users'[i].api_key = users'[j].api_key => i = j
       /\ users' # users
             => /\ Len(users') = Len(users) + 1
                /\ \A i \in 1..Len(users) : users'[i] = users[i]
                /\ users'[Len(users')].api_key \in ValidKeys
                /\ \E c \in 1..Len(calls) :
                      /\ calls[c].kind \in {"register", "auto-register"}
                      /\ calls[c].pc = "verifyApiKey"
                      /\ calls'[c].pc = "done"
                      /\ calls'[c].valid = "true"
                      /\ calls[c].apiKey = users'[Len(users')].api_key]_vars

\* a register call and the auto-register call of one credential were
\* suspended together and both were verified; the table holds one row of the
\* credential, and a row of another credential
C31_Witness ==
    /\ Len(users) = 2
    /\ \E c, d \in 1..Len(calls) :
          /\ calls[c].kind = "auto-register" /\ calls[d].kind = "register"
          /\ calls[c].apiKey = calls[d].apiKey
          /\ calls[c].valid = "true" /\ calls[d].valid = "true"
          /\ c < d /\ calls[d].order < calls[c].order
          /\ Cardinality(UsersWithKey(users, calls[c].apiKey)) = 1

\* every run that has begun has ended, the last status it wrote to its row
\* is 'ready' or 'failed', and no row is 'processing'
Settled ==
    /\ \A r \in 1..Len(runs) :
          /\ runs[r].pc = "done"
          /\ Last(runs[r].writes) \in {"ready", "failed"}
          /\ runs[r].recordingId \in Ids(recordings)
    /\ \A i \in Ids(recordings) : recordings[i].insights_status # "processing"

\* C32: every run that has begun ends with a terminal status written last
\* to its row, and no row stays 'processing': at any moment of an execution
\* there is a later one at which all the runs begun so far have ended so.
C32_EveryRunEnds == []<>Settled

\* C33: the promise of a start() call is settled once and in the end: the
\* step that settles it gives it the webhook URL or null, no later step
\* changes that, the public URL is only ever set by the step that settles a
\* call with the webhook URL, and every call is settled in the end.
C33_StartSettlesOnce ==
    /\ [][/\ \A k \in 1..Len(children) :
               /\ children[k].resolved
                     => children'[k].resolved /\ children'[k].value = children[k].value
               /\ children'[k].resolved
                     <=> children'[k].value \in {Null, "https://t.trycloudflare.com/api/webhook"}
          /\ (tunnelManager'.publicUrl # Null /\ tunnelManager.publicUrl = Null)
                => \E k \in 1..Len(children) :
                      /\ ~children[k].resolved
                      /\ children'[k].value = tunnelManager'.webhookUrl
                      /\ tunnelManager'.webhookUrl # Null]_vars
    /\ []<>(\A k \in 1..Len(children) : children[k].resolved)

\* a call settled with null whose process still runs and prints, and another
\* settled with the URL whose process exited
C33_Witness ==
    \E k, j \in 1..Len(children) :
        /\ children[k].value = Null
        /\ children[k].state = "running"
        /\ children[j].value = "https://t.trycloudflare.com/api/webhook"
        /\ children[j].state = "exited"

\* C34: isRunning() is true only while the referenced process has not exited
\* and its URL was parsed, and once the manager references no process and
\* reports no webhook URL, as stop() leaves it, no step but a start makes it
\* report one.
C34_RunningOnlyWithLiveParsedProcess ==
    /\ [](isRunning
            => /\ children[tunnelManager.process].state = "running"
               /\ children[tunnelManager.process].value # Null
               /\ children[tunnelManager.process].resolved)
    /\ [][(/\ tunnelManager.process = 0
           /\ tunnelManager.webhookUrl = Null
           /\ tunnelManager'.process = 0)
             => tunnelManager'.webhookUrl \in {Null, "https://env/api/webhook"}]_vars

\* C35: only the first trigger's shutdownApp awaits the capture client's
\* shutdown and only its steps close the database, and the process has never
\* ended with the database still open.
C35_CleanupOnceAndBeforeExit ==
    /\ [][\A c \in 1..Len(calls') :
             (/\ calls'[c].kind \in Triggers
              /\ \/ calls'[c].pc = "shutdown"
                 \/ dbOpen /\ ~dbOpen' /\ (c > Len(calls) \/ calls[c] # calls'[c]))
                => \A b \in 1..(c - 1) : calls'[b].kind \notin Triggers]_vars
    /\ [](Exited => ~dbOpen)

\* C36: when getSessionToken returns the cached token to a call, a user is
\* registered and the token is the one issued for that user's credential.
C36_CachedTokenIsCurrentUsers ==
    [][\A c \in 1..Len(calls) :
          (/\ calls[c].pc = "createCaptureSession"
           /\ calls'[c].pc = "listChannels")
             => /\ calls'[c].token = cachedSessionToken
                /\ Truthy(getCurrentUserApiKey(users, appConfig))
                /\ calls'[c].token
                      = SessionTokenFor(getCurrentUserApiKey(users, appConfig))]_vars

\* the start-recording calls that created a capture client
Created ==
    {c \in 1..Len(calls) : calls[c].kind = "start-recording" /\ calls[c].token # Null}

\* C37: every capture client that was created is the one captureClient
\* references or has had its shutdown() called.
C37_NoUnreferencedLiveClient ==
    \A c \in Created : c = captureClient.ref \/ c \in captureClient.down

====
